---- MODULE Spec2Model ----
(***************************************************************************)
(* ngx-role-accessor: the TTL/LRU cache (lru-cache.ts), the role hierarchy *)
(* manager (role-hierarchy.manager.ts) and the decision engine of          *)
(* RoleService (role.service.ts), as state machines.                       *)
(*                                                                         *)
(* Strings of the program are sequences of tokens, so that concatenation   *)
(* (cache keys), JSON.stringify and RegExp matching are computed and not   *)
(* assumed.  The empty string is << >>.                                    *)
(***************************************************************************)
EXTENDS Integers, Sequences, FiniteSets, TLC

VARIABLES
    now,            \* Date.now()
    cache,          \* LruCache.cache of a stand-alone LruCache: Map in insertion order
    maxSize,        \* LruCache.maxSize
    defaultTtl,     \* LruCache.defaultTtl
    recency,        \* history: keys in the order of their last set / successful get
    cacheRet,       \* history: what the last LruCache call returned
    universe,       \* the roles the caller of the manager passes as allRoles
    hierarchyCache, \* RoleHierarchyManager.hierarchyCache: Map from key to Role[]
    hierCall,       \* history: the last RoleHierarchyManager call on the current universe
    hierRet,        \* history: the outcome of that call
    walk,           \* getHierarchyPath in progress: currentRole and path of its loop
    userContext,    \* RoleService.userContext: the signal's value, or no context
    config,         \* RoleService.config
    contextCache,   \* RoleService.contextCache: the Map of its LruCache
    auditLog,       \* RoleService.auditLog
    effectDirty,    \* the effect of setupEffects is scheduled and has not run
    lastCall,       \* history: the last call on the RoleService and its outcome
    observer,       \* a subscriber of hasRole(...) and the value it was notified of last
    pending,        \* the Observables of checks, returned and not yet subscribed
    auditRet,       \* history: the limit and the value of the last getAuditLog call
    destroyed       \* ngOnDestroy ran: destroy$ and eventSubject are completed

cacheVars == <<now, cache, maxSize, defaultTtl, recency, cacheRet>>

hierVars == <<universe, hierarchyCache, hierCall, hierRet, walk>>

svcVars ==
    <<userContext, config, contextCache, auditLog, effectDirty, lastCall, observer,
      pending, auditRet, destroyed>>

vars == <<cacheVars, hierVars, svcVars>>

-----------------------------------------------------------------------------
(* Bounds of the model *)

MaxTime == 2

\* resolveHierarchy calls that add an entry to the memo, until it is cleared
MaxMemo == 1

\* entries of the audit log of the RoleService
MaxAudit == 2

\* entries of the audit log when route guards are activated
MaxGuardAudit == 3

\* RoleService.maxAuditLogSize, 10000 in the code: scaled down, and below
\* MaxAudit, so that the log can grow past it
maxAuditLogSize == 1

\* RbacConfig.maxCacheSize of the RoleService
MaxCacheSize == 2

\* RbacConfig.cacheTimeout of the RoleService
CacheTimeout == 1

-----------------------------------------------------------------------------
(* JavaScript values *)

\* the value undefined, where a string is expected
Undef == <<"undefined">>

\* truthiness of a string-or-undefined value: undefined and '' are falsy
Truthy(s) == s # Undef /\ s # << >>

\* an optional number argument: absent, or a number
NoNum == [given |-> FALSE, val |-> 0]

Num(n) == [given |-> TRUE, val |-> n]

\* a || b for an optional number a: undefined and 0 are falsy
NumOr(a, b) == IF a.given /\ a.val # 0 THEN a.val ELSE b

\* what a call returned: a value (or undefined), a boolean, a count
Ret(value, flag, count) == [value |-> value, flag |-> flag, count |-> count]

NoRet == Ret(Undef, FALSE, 0)

-----------------------------------------------------------------------------
(* RegExp: a set of alternatives, each anchored with ^ and made of literal  *)
(* atoms, an atom followed by + meaning one or more repetitions.            *)

Atom(ch, plus) == [ch |-> ch, plus |-> plus]

RECURSIVE ParseAtoms(_)
\* the atoms of a pattern source in which + follows a literal
ParseAtoms(src) ==
    IF src = << >> THEN << >>
    ELSE IF Len(src) >= 2 /\ src[2] = "+"
         THEN <<Atom(src[1], TRUE)>> \o ParseAtoms(SubSeq(src, 3, Len(src)))
         ELSE <<Atom(src[1], FALSE)>> \o ParseAtoms(Tail(src))

RECURSIVE MatchFrom(_, _, _, _)
\* the atoms from index i on match str at position j (a prefix match: no $)
MatchFrom(atoms, i, str, j) ==
    IF i > Len(atoms) THEN TRUE
    ELSE IF j > Len(str) \/ str[j] # atoms[i].ch THEN FALSE
    ELSE IF atoms[i].plus
         THEN \E k \in 1..(Len(str) - j + 1) :
                  /\ \A m \in j..(j + k - 1) : str[m] = atoms[i].ch
                  /\ MatchFrom(atoms, i + 1, str, j + k)
         ELSE MatchFrom(atoms, i + 1, str, j + 1)

\* RegExp.prototype.test of new RegExp('^' + alt1 + '|^' + alt2 ...)
RegExpTest(alts, str) == \E a \in alts : MatchFrom(ParseAtoms(a), 1, str, 1)

-----------------------------------------------------------------------------
(* LruCache<T>: the Map is a sequence of entries in insertion order          *)

CacheEntry(key, value, timestamp, ttl) ==
    [key |-> key, value |-> value, timestamp |-> timestamp, ttl |-> ttl]

\* Map.has
MapHas(c, key) == \E i \in 1..Len(c) : c[i].key = key

\* Map.get of a key that is present
MapGet(c, key) == c[CHOOSE i \in 1..Len(c) : c[i].key = key]

\* Map.delete
MapDelete(c, key) ==
    LET Keep(e) == e.key # key IN SelectSeq(c, Keep)

\* Array.from(Map.keys())
LruKeys(c) == [i \in 1..Len(c) |-> c[i].key]

\* an expiry test that ends the life of an entry one time unit early
ExpiredAtTtl(e, t) == t - e.timestamp >= e.ttl

\* the expiry test of get, cleanup and getStats
Expired(e, t) == t - e.timestamp > e.ttl

\* LruCache.set
LruSet(c, max, dflt, key, value, ttl, t) ==
    LET entry    == CacheEntry(key, value, t, NumOr(ttl, dflt))
        inserted == Append(MapDelete(c, key), entry)
        firstKey == inserted[1].key
    IN  IF Len(inserted) > max /\ Truthy(firstKey)
        THEN MapDelete(inserted, firstKey)
        ELSE inserted

\* LruCache.get: the cache afterwards, whether a value is returned, the value
LruGet(c, key, t) ==
    IF ~MapHas(c, key)
    THEN [cache |-> c, found |-> FALSE, value |-> Undef]
    ELSE LET entry == MapGet(c, key)
         IN  IF Expired(entry, t)
             THEN [cache |-> MapDelete(c, key), found |-> FALSE, value |-> Undef]
             ELSE [cache |-> Append(MapDelete(c, key), entry),
                   found |-> TRUE, value |-> entry.value]

\* LruCache.cleanup: the cache afterwards and the number removed
\* a cleanup that also removes the entries in the last moment of their life
LruCleanupAtTtl(c, t) ==
    LET Live(e) == ~ExpiredAtTtl(e, t)
        kept    == SelectSeq(c, Live)
    IN  [cache |-> kept, removed |-> Len(c) - Len(kept)]

LruCleanup(c, t) ==
    LET Live(e) == ~Expired(e, t)
        kept    == SelectSeq(c, Live)
    IN  [cache |-> kept, removed |-> Len(c) - Len(kept)]

\* LruCache.invalidatePattern
LruInvalidatePattern(c, alts) ==
    LET Keep(e) == ~RegExpTest(alts, e.key)
        kept    == SelectSeq(c, Keep)
    IN  [cache |-> kept, removed |-> Len(c) - Len(kept)]

\* LruCache.refresh
LruRefresh(c, dflt, key, newTtl, t) ==
    IF ~MapHas(c, key)
    THEN [cache |-> c, ok |-> FALSE]
    ELSE LET entry == MapGet(c, key)
             fresh == [entry EXCEPT !.timestamp = t, !.ttl = NumOr(newTtl, dflt)]
         IN  [cache |-> Append(MapDelete(c, key), fresh), ok |-> TRUE]

\* LruCache.getStats
LruGetStats(c, max, t) ==
    LET Dead(e) == Expired(e, t)
    IN  [size |-> Len(c), maxSize |-> max, hitRate |-> 0,
         expiredEntries |-> Len(SelectSeq(c, Dead))]

-----------------------------------------------------------------------------
(* Roles.  ref is the identity of the JavaScript object: Set<Role> compares  *)
(* objects by identity, so two records that differ only in ref are two       *)
(* objects with the same fields.                                             *)

Role(ref, id, active, parentRoleId, tenantId) ==
    [ref |-> ref, id |-> id, active |-> active,
     parentRoleId |-> parentRoleId, tenantId |-> tenantId]

\* the code units of the tokens, in increasing order
Alphabet == <<"+", ",", ":", "A", "B", "C", "Z", "a", "admin", "manager", "t", "u">>

Rank(tok) == CHOOSE i \in 1..Len(Alphabet) : Alphabet[i] = tok

RECURSIVE StrLess(_, _)
\* s < t for strings, as Array.prototype.sort without comparator orders them
StrLess(s, t) ==
    IF t = << >> THEN FALSE
    ELSE IF s = << >> THEN TRUE
    ELSE IF s[1] # t[1] THEN Rank(s[1]) < Rank(t[1])
    ELSE StrLess(Tail(s), Tail(t))

RECURSIVE SortStrings(_)
\* Array.prototype.sort of an array of strings
SortStrings(xs) ==
    IF xs = << >> THEN << >>
    ELSE LET least == CHOOSE i \in 1..Len(xs) :
                         \A j \in 1..Len(xs) : ~StrLess(xs[j], xs[i])
             rest  == [k \in 1..(Len(xs) - 1) |-> IF k < least THEN xs[k] ELSE xs[k + 1]]
         IN  <<xs[least]>> \o SortStrings(rest)

RECURSIVE Join(_, _)
\* Array.prototype.join
Join(xs, sep) ==
    IF xs = << >> THEN << >>
    ELSE IF Len(xs) = 1 THEN xs[1]
    ELSE xs[1] \o sep \o Join(Tail(xs), sep)

\* roles.map(r => r.id)
RoleIdsOf(roles) == [i \in 1..Len(roles) |-> roles[i].id]

\* Array.prototype.find(r => r.id === id): the first match, or no role
HasRoleId(roles, id) == \E i \in 1..Len(roles) : roles[i].id = id

FindRole(roles, id) ==
    roles[CHOOSE i \in 1..Len(roles) :
              /\ roles[i].id = id
              /\ \A j \in 1..(i - 1) : roles[j].id # id]

\* Set.add on a Set kept in insertion order
SetAdd(seq, x) ==
    IF \E i \in 1..Len(seq) : seq[i] = x THEN seq ELSE Append(seq, x)

-----------------------------------------------------------------------------
(* RoleHierarchyManager *)

\* RoleHierarchyManager.generateCacheKey
HierarchyCacheKey(roles, tenantId) ==
    Join(SortStrings(RoleIdsOf(roles)), <<",">>) \o <<":">>
        \o (IF Truthy(tenantId) THEN <<"tenant:">> \o tenantId ELSE <<"no-tenant">>)

RECURSIVE ResolveRoleRecursively(_, _, _, _, _)
\* RoleHierarchyManager.resolveRoleRecursively: the resolved set afterwards,
\* or thrown = TRUE for the circular dependency error
ResolveRoleRecursively(role, allRoles, resolvedRoles, processedRoleIds, tenantId) ==
    IF role.id \in processedRoleIds
    THEN [thrown |-> TRUE, resolved |-> resolvedRoles]
    ELSE IF Truthy(tenantId) /\ Truthy(role.tenantId) /\ role.tenantId # tenantId
    THEN [thrown |-> FALSE, resolved |-> resolvedRoles]
    ELSE LET added == SetAdd(resolvedRoles, role)
         IN  IF Truthy(role.parentRoleId) /\ HasRoleId(allRoles, role.parentRoleId)
             THEN ResolveRoleRecursively(FindRole(allRoles, role.parentRoleId), allRoles,
                                         added, processedRoleIds \cup {role.id}, tenantId)
             ELSE [thrown |-> FALSE, resolved |-> added]

RECURSIVE ResolveEach(_, _, _, _, _)
\* the loop of resolveHierarchy over the user roles from index i on
ResolveEach(userRoles, i, allRoles, resolvedRoles, tenantId) ==
    IF i > Len(userRoles)
    THEN [thrown |-> FALSE, resolved |-> resolvedRoles]
    ELSE LET r == ResolveRoleRecursively(userRoles[i], allRoles, resolvedRoles, {}, tenantId)
         IN  IF r.thrown THEN r
             ELSE ResolveEach(userRoles, i + 1, allRoles, r.resolved, tenantId)

\* the outcome of a RoleHierarchyManager call: a result, or the code of the
\* RbacError it throws
HierOk(roles) == [ok |-> TRUE, code |-> "", roles |-> roles]

HierThrow(code) == [ok |-> FALSE, code |-> code, roles |-> << >>]

\* the last call of the caller: none yet on its current universe, or a call
NoHierCall == [op |-> "none", userRoles |-> << >>, tenantId |-> Undef]

HierCall(op, userRoles, tenantId) ==
    [op |-> op, userRoles |-> userRoles, tenantId |-> tenantId]

\* RoleHierarchyManager.getHierarchyPath at the head of its while loop:
\* running until it returns path; currentRole is a role or undefined
Walk(running, currentRole, path) ==
    [running |-> running, currentRole |-> currentRole, path |-> path]

\* no call of getHierarchyPath was made
NoWalk == Walk(FALSE, Undef, << >>)

\* one pass of the loop of getHierarchyPath
\* a pass that does not push currentRole
WalkStepWithoutPush(w, allRoles) ==
    LET currentRole == w.currentRole
    IN  IF ~Truthy(currentRole.parentRoleId)
        THEN Walk(FALSE, currentRole, w.path)
        ELSE IF HasRoleId(allRoles, currentRole.parentRoleId)
        THEN Walk(TRUE, FindRole(allRoles, currentRole.parentRoleId), w.path)
        ELSE Walk(FALSE, Undef, w.path)

WalkStep(w, allRoles) ==
    LET currentRole == w.currentRole
        path        == Append(w.path, currentRole)
    IN  IF ~Truthy(currentRole.parentRoleId)
        THEN Walk(FALSE, currentRole, path)
        ELSE IF HasRoleId(allRoles, currentRole.parentRoleId)
        THEN Walk(TRUE, FindRole(allRoles, currentRole.parentRoleId), path)
        ELSE Walk(FALSE, Undef, path)

\* RoleHierarchyManager.resolveHierarchy: the memo afterwards and the outcome
ResolveHierarchy(memo, userRoles, allRoles, tenantId) ==
    LET cacheKey == HierarchyCacheKey(userRoles, tenantId)
    IN  IF cacheKey \in DOMAIN memo
        THEN [memo |-> memo, out |-> HierOk(memo[cacheKey])]
        ELSE LET r == ResolveEach(userRoles, 1, allRoles, << >>, tenantId)
             IN  IF r.thrown
                 THEN [memo |-> memo, out |-> HierThrow("HIERARCHY_ERROR")]
                 ELSE [memo |-> (cacheKey :> r.resolved) @@ memo,
                       out  |-> HierOk(r.resolved)]

\* new Map(roles.map(r => [r.id, r])).get(id): the last role with that id
MapOfRolesGet(roles, id) ==
    roles[CHOOSE i \in 1..Len(roles) :
              /\ roles[i].id = id
              /\ \A j \in (i + 1)..Len(roles) : roles[j].id # id]

RECURSIVE ValidateRoleHierarchyRecursively(_, _, _)
\* RoleHierarchyManager.validateRoleHierarchyRecursively: "" when it returns,
\* else the code of the error it throws
ValidateRoleHierarchyRecursively(role, roles, visited) ==
    IF ~Truthy(role.parentRoleId) THEN ""
    ELSE IF role.parentRoleId \in visited THEN "HIERARCHY_ERROR"
    ELSE IF ~HasRoleId(roles, role.parentRoleId) THEN "INVALID_ROLE"
    ELSE ValidateRoleHierarchyRecursively(MapOfRolesGet(roles, role.parentRoleId), roles,
                                          visited \cup {role.parentRoleId})

RECURSIVE ValidateFrom(_, _)
\* the loop of validateHierarchy from index i on
ValidateFrom(roles, i) ==
    IF i > Len(roles) THEN ""
    ELSE LET code == IF Truthy(roles[i].parentRoleId)
                     THEN ValidateRoleHierarchyRecursively(roles[i], roles, {roles[i].id})
                     ELSE ""
         IN  IF code # "" THEN code ELSE ValidateFrom(roles, i + 1)

\* RoleHierarchyManager.validateHierarchy
\* a validation that reports every violation as a circular dependency
ValidateAsCircular(roles) ==
    IF ValidateFrom(roles, 1) = "" THEN HierOk(<< >>) ELSE HierThrow("HIERARCHY_ERROR")

\* a validation that accepts every hierarchy
ValidateNothing(roles) == HierOk(<< >>)

ValidateHierarchy(roles) ==
    LET code == ValidateFrom(roles, 1)
    IN  IF code = "" THEN HierOk(<< >>) ELSE HierThrow(code)

\* String.prototype.includes
Includes(str, sub) ==
    \E i \in 1..(Len(str) - Len(sub) + 1) : SubSeq(str, i, i + Len(sub) - 1) = sub

\* RoleHierarchyManager.clearCache
ClearHierarchyCache(memo, tenantId) ==
    IF Truthy(tenantId)
    THEN LET kept == {k \in DOMAIN memo : ~Includes(k, <<"tenant:">> \o tenantId)}
         IN  [k \in kept |-> memo[k]]
    ELSE << >>

-----------------------------------------------------------------------------
(* RoleService: its data *)

Permission(id, resource, action, active) ==
    [id |-> id, resource |-> resource, action |-> action, active |-> active]

UserContext(userId, roles, permissions, tenantId) ==
    [present |-> TRUE, userId |-> userId, roles |-> roles,
     permissions |-> permissions, tenantId |-> tenantId]

\* the value null of the userContext signal
NoContext ==
    [present |-> FALSE, userId |-> Undef, roles |-> << >>,
     permissions |-> << >>, tenantId |-> Undef]

\* the systemRoles signal: set to [] where it is declared and written nowhere
systemRoles == << >>

\* RbacConfig, with the cache size and the timeout of the model
RbacConfig(enableRoleHierarchy, enableCaching, strictMode) ==
    [enableRoleHierarchy |-> enableRoleHierarchy, enableCaching |-> enableCaching,
     strictMode |-> strictMode, maxCacheSize |-> MaxCacheSize,
     cacheTimeout |-> CacheTimeout]

DEFAULT_RBAC_CONFIG == RbacConfig(TRUE, TRUE, FALSE)

\* CACHE_KEYS
ROLE_CHECK == <<"rbac:role:">>

PERMISSION_CHECK == <<"rbac:permission:">>

\* the options argument of a check.  includeInherited is "undefined", "true"
\* or "false"; context is "undefined" or "circular", an object that refers to
\* itself
Options(includeInherited, tenantId, resource, action, context) ==
    [given |-> TRUE, includeInherited |-> includeInherited, tenantId |-> tenantId,
     resource |-> resource, action |-> action, context |-> context]

\* a check called without options
NoOptions ==
    [given |-> FALSE, includeInherited |-> "undefined", tenantId |-> Undef,
     resource |-> Undef, action |-> Undef, context |-> "undefined"]

\* PermissionCheckResult; an absent list of granting ids is the empty list
PermissionCheckResult(granted, reason, grantingRoles, grantingPermissions) ==
    [granted |-> granted, reason |-> reason, grantingRoles |-> grantingRoles,
     grantingPermissions |-> grantingPermissions]

Denied(reason) == PermissionCheckResult(FALSE, reason, << >>, << >>)

NoResult == Denied(<< >>)

AuditLogEntry(userId, action, resource, result) ==
    [userId |-> userId, action |-> action, resource |-> resource, result |-> result]

\* `check_${type}`
CheckAction(type) == IF type = "role" THEN <<"check_role">> ELSE <<"check_permission">>

\* what getAuditLog(limit) returned
AuditRet(limit, entries) == [limit |-> limit, entries |-> entries]

NoAuditRet == AuditRet(0, << >>)

\* a notification stream that still notifies after ngOnDestroy
NotifiedAlways(events) == events

\* emitEvent: eventSubject.next(event) notifies the subscribers of events$
\* unless the Subject was completed by ngOnDestroy
Notified(events) == IF destroyed THEN << >> ELSE events

\* the last call on the service: the method, its arguments, whether it threw
\* to its caller and the message, the result it delivered, whether
\* executePermissionCheck ran, whether the result came from the cache, how many
\* audit entries it appended, the events the subscribers of events$ received
Call(op, type, identifier, options, thrown, message, result, evaluated, fromCache, audited, events) ==
    [op |-> op, type |-> type, identifier |-> identifier, options |-> options,
     thrown |-> thrown, message |-> message, result |-> result,
     evaluated |-> evaluated, fromCache |-> fromCache, audited |-> audited,
     events |-> Notified(events)]

NoCall ==
    Call("none", "", << >>, NoOptions, FALSE, << >>, NoResult, FALSE, FALSE, 0, << >>)

\* a subscriber of the Observable hasRole(roleId, options) returned, and the
\* value its next callback received last
Observer(roleId, options, value) ==
    [subscribed |-> TRUE, roleId |-> roleId, options |-> options, value |-> value]

NoObserver ==
    [subscribed |-> FALSE, roleId |-> << >>, options |-> NoOptions, value |-> FALSE]

\* the variables of a RoleService nobody calls
IdleService ==
    /\ observer = NoObserver
    /\ pending = << >>
    /\ auditRet = NoAuditRet
    /\ destroyed = FALSE
    /\ userContext = NoContext
    /\ config = DEFAULT_RBAC_CONFIG
    /\ contextCache = << >>
    /\ auditLog = << >>
    /\ effectDirty = FALSE
    /\ lastCall = NoCall

\* a call that is no check
PlainCall(op, events) ==
    Call(op, "", << >>, NoOptions, FALSE, << >>, NoResult, FALSE, FALSE, 0, events)

-----------------------------------------------------------------------------
(* RoleService: the decision engine *)

\* the properties JSON.stringify writes for an options object, in the order
\* includeInherited, tenantId, resource, action; undefined ones are left out
JsonProperties(o) ==
    (IF o.includeInherited # "undefined"
     THEN << <<"\"includeInherited\":", o.includeInherited>> >> ELSE << >>)
    \o (IF o.tenantId # Undef
        THEN << <<"\"tenantId\":\"">> \o o.tenantId \o <<"\"">> >> ELSE << >>)
    \o (IF o.resource # Undef
        THEN << <<"\"resource\":\"">> \o o.resource \o <<"\"">> >> ELSE << >>)
    \o (IF o.action # Undef
        THEN << <<"\"action\":\"">> \o o.action \o <<"\"">> >> ELSE << >>)

\* JSON.stringify(options): a TypeError when options.context refers to itself
JsonStringify(o) ==
    [thrown |-> o.context = "circular",
     str    |-> <<"{">> \o Join(JsonProperties(o), <<",">>) \o <<"}">>]

\* RoleService.generateCacheKey
\* a key that leaves the identifier out
CacheKeyWithoutIdentifier(type, identifier, userId, options) ==
    LET json       == JsonStringify(options)
        optionsStr == IF options.given THEN json.str ELSE << >>
        prefix     == IF type = "role" THEN ROLE_CHECK ELSE PERMISSION_CHECK
    IN  [thrown |-> options.given /\ json.thrown,
         key    |-> prefix \o userId \o <<":">> \o optionsStr]

GenerateCacheKey(type, identifier, userId, options) ==
    LET json       == JsonStringify(options)
        optionsStr == IF options.given THEN json.str ELSE << >>
        prefix     == IF type = "role" THEN ROLE_CHECK ELSE PERMISSION_CHECK
    IN  [thrown |-> options.given /\ json.thrown,
         key    |-> prefix \o userId \o <<":">> \o identifier \o <<":">> \o optionsStr]

\* RoleService.clearUserCache: the contextCache afterwards
ClearUserCache(cc, userId) ==
    LruInvalidatePattern(cc, { ROLE_CHECK \o userId \o <<":">>,
                               PERMISSION_CHECK \o userId \o <<":">> }).cache

\* options?.['includeInherited'] ?? this.config.enableRoleHierarchy
IncludeInherited(options, cfg) ==
    IF options.includeInherited # "undefined"
    THEN options.includeInherited = "true"
    ELSE cfg.enableRoleHierarchy

\* options?.['tenantId'] ?? context.tenantId
EffectiveTenant(options, context) ==
    IF options.tenantId # Undef THEN options.tenantId ELSE context.tenantId

\* a tenant filter that drops the roles without tenant
RolesTaggedWithTenant(context, tenantId) ==
    LET Fits(r) == r.tenantId = tenantId
    IN  IF Truthy(tenantId) THEN SelectSeq(context.roles, Fits) ELSE context.roles

\* no tenant filter
RolesOfAnyTenant(context, tenantId) == context.roles

\* the roles of the context checkRoleAccess looks at
RolesToCheck(context, tenantId) ==
    LET Fits(r) == ~Truthy(r.tenantId) \/ r.tenantId = tenantId
    IN  IF Truthy(tenantId) THEN SelectSeq(context.roles, Fits) ELSE context.roles

\* roles.some(r => r.id === roleId && r.active)
SomeActive(roles, roleId) ==
    \E i \in 1..Len(roles) : roles[i].id = roleId /\ roles[i].active

\* the result of a check that did not throw, and the memo afterwards
Returned(result, memo) ==
    [thrown |-> FALSE, message |-> << >>, memo |-> memo, result |-> result]

\* RoleService.checkRoleAccess, the hierarchical check: h is what
\* resolveHierarchy did
InheritedRoleAccess(roleId, h, notFound) ==
    LET WithId(r) == r.id = roleId
    IN  IF ~h.out.ok
        THEN [thrown |-> TRUE, message |-> <<"Role hierarchy resolution failed">>,
              memo |-> h.memo, result |-> NoResult]
        ELSE IF SomeActive(h.out.roles, roleId)
        THEN Returned(PermissionCheckResult(TRUE, <<"Inherited role assignment">>,
                          RoleIdsOf(SelectSeq(h.out.roles, WithId)), << >>), h.memo)
        ELSE Returned(notFound, h.memo)

\* RoleService.checkRoleAccess on the roles it looks at: the result or the
\* error thrown, and the memo of the hierarchy manager afterwards
CheckRolesAccess(roleId, rolesToCheck, tenantId, includeInherited, memo, notFound) ==
    IF SomeActive(rolesToCheck, roleId)
    THEN Returned(PermissionCheckResult(TRUE, <<"Direct role assignment">>,
                                        <<roleId>>, << >>), memo)
    ELSE IF ~includeInherited
    THEN Returned(notFound, memo)
    ELSE InheritedRoleAccess(roleId,
             ResolveHierarchy(memo, rolesToCheck, systemRoles, tenantId), notFound)

\* RoleService.checkRoleAccess
CheckRoleAccess(roleId, context, options, cfg, memo) ==
    CheckRolesAccess(roleId,
        RolesToCheck(context, EffectiveTenant(options, context)),
        EffectiveTenant(options, context), IncludeInherited(options, cfg), memo,
        Denied(<<"Role '">> \o roleId \o <<"' not found in user's roles">>))

\* a permission check that matches by id only
CheckPermissionById(permissionId, context, options) ==
    LET Grants(p) == p.active /\ p.id = permissionId
        Listed(p) == p.id = permissionId
    IN  IF \E i \in 1..Len(context.permissions) : Grants(context.permissions[i])
        THEN PermissionCheckResult(TRUE, <<"Direct permission assignment">>, << >>,
                                   RoleIdsOf(SelectSeq(context.permissions, Listed)))
        ELSE Denied(<<"Permission '">> \o permissionId \o <<"' not found">>)

\* RoleService.checkPermissionAccess
CheckPermissionAccess(permissionId, context, options) ==
    LET resource   == options.resource
        action     == options.action
        pair       == Truthy(resource) /\ Truthy(action)
        Grants(p)  == /\ p.active
                      /\ \/ p.id = permissionId
                         \/ pair /\ p.resource = resource /\ p.action = action
        Listed(p)  == \/ p.id = permissionId
                      \/ pair /\ p.resource = resource /\ p.action = action
    IN  IF \E i \in 1..Len(context.permissions) : Grants(context.permissions[i])
        THEN PermissionCheckResult(TRUE, <<"Direct permission assignment">>, << >>,
                                   RoleIdsOf(SelectSeq(context.permissions, Listed)))
        ELSE Denied(<<"Permission '">> \o permissionId \o <<"' not found">>)

\* RoleService.executePermissionCheck
ExecutePermissionCheck(type, identifier, context, options, cfg, memo) ==
    IF type = "role"
    THEN CheckRoleAccess(identifier, context, options, cfg, memo)
    ELSE Returned(CheckPermissionAccess(identifier, context, options), memo)

\* the Observable performPermissionCheck returns.  kind "of" is of(result);
\* kind "pipe" is of(result).pipe(map(...), catchError(...)), whose map and
\* catchError callbacks run when it is subscribed; failed says that the
\* inner observable errors, which of(result) never does
Observable(kind, result, cacheKey, userId, type, identifier) ==
    [kind |-> kind, result |-> result, cacheKey |-> cacheKey, userId |-> userId,
     type |-> type, identifier |-> identifier, failed |-> FALSE, message |-> << >>]

NoObservable == Observable("none", NoResult, << >>, Undef, "", << >>)

\* RoleService.logAudit
\* an audit that files every entry under the user id of the legacy setters
LogAuditAsUnknown(log, userId, type, identifier, result) ==
    Append(log, AuditLogEntry(<<"unknown">>, CheckAction(type), identifier, result))

LogAudit(log, userId, type, identifier, result) ==
    Append(log, AuditLogEntry(userId, CheckAction(type), identifier, result))

\* what a call of performPermissionCheck did: the error it threw to its
\* caller or the Observable it returned, whether executePermissionCheck ran,
\* whether the cache answered, and the caches and the audit log afterwards
Performed(thrown, message, evaluated, fromCache, cc, memo, log, observable) ==
    [thrown |-> thrown, message |-> message, evaluated |-> evaluated,
     fromCache |-> fromCache, contextCache |-> cc, hierarchyCache |-> memo,
     auditLog |-> log, observable |-> observable]

\* performPermissionCheck after executePermissionCheck: e is what it did
PerformEvaluated(type, identifier, userId, key, e, cc, log) ==
    IF e.thrown
    THEN Performed(TRUE, e.message, TRUE, FALSE, cc, e.memo, log, NoObservable)
    ELSE Performed(FALSE, << >>, TRUE, FALSE, cc, e.memo, log,
                   Observable("pipe", e.result, key, userId, type, identifier))

\* performPermissionCheck after the cache lookup: g is what contextCache.get
\* did, or a miss when caching is disabled
PerformLookedUp(type, identifier, options, context, cfg, key, g, memo, log) ==
    IF g.found
    THEN Performed(FALSE, << >>, FALSE, TRUE, g.cache, memo, log,
                   Observable("of", g.value, key, context.userId, type, identifier))
    ELSE PerformEvaluated(type, identifier, context.userId, key,
             ExecutePermissionCheck(type, identifier, context, options, cfg, memo),
             g.cache, log)

\* performPermissionCheck after generateCacheKey: k is what it did
PerformKeyed(type, identifier, options, context, cfg, k, cc, memo, log, t) ==
    IF k.thrown
    THEN Performed(TRUE, <<"Converting circular structure to JSON">>, FALSE, FALSE,
                   cc, memo, log, NoObservable)
    ELSE PerformLookedUp(type, identifier, options, context, cfg, k.key,
             IF cfg.enableCaching
             THEN LruGet(cc, k.key, t)
             ELSE [cache |-> cc, found |-> FALSE, value |-> Undef],
             memo, log)

\* RoleService.performPermissionCheck, up to its return
PerformPermissionCheck(type, identifier, options, context, cfg, cc, memo, log, t) ==
    IF ~context.present
    THEN Performed(FALSE, << >>, FALSE, FALSE, cc, memo,
             LogAudit(log, <<"anonymous">>, type, identifier,
                      Denied(<<"No user context available">>)),
             Observable("of", Denied(<<"No user context available">>), << >>, Undef,
                        type, identifier))
    ELSE PerformKeyed(type, identifier, options, context, cfg,
             GenerateCacheKey(type, identifier, context.userId, options),
             cc, memo, log, t)

\* a subscription that stores the result whatever enableCaching says
SubscribeAlwaysCaching(obs, cfg, cc, log, t) ==
    IF obs.kind = "of"
    THEN [thrown |-> FALSE, result |-> obs.result, contextCache |-> cc,
          auditLog |-> log, events |-> << >>]
    ELSE [thrown |-> FALSE, result |-> obs.result,
          contextCache |-> LruSet(cc, cfg.maxCacheSize, cfg.cacheTimeout,
                                  obs.cacheKey, obs.result, NoNum, t),
          auditLog |-> LogAudit(log, obs.userId, obs.type, obs.identifier, obs.result),
          events |-> IF obs.result.granted
                     THEN <<"ACCESS_GRANTED">> ELSE <<"ACCESS_DENIED">>]

\* the subscription of the Observable of a check: the result delivered or the
\* error, the contextCache and the audit log afterwards, the events emitted
Subscribe(obs, cfg, cc, log, t) ==
    LET failure == Denied(<<"Check failed: ">> \o obs.message)
    IN  IF obs.kind = "of"
        THEN [thrown |-> FALSE, result |-> obs.result, contextCache |-> cc,
              auditLog |-> log, events |-> << >>]
        ELSE IF ~obs.failed
        THEN [thrown |-> FALSE, result |-> obs.result,
              contextCache |-> IF cfg.enableCaching
                               THEN LruSet(cc, cfg.maxCacheSize, cfg.cacheTimeout,
                                           obs.cacheKey, obs.result, NoNum, t)
                               ELSE cc,
              auditLog |-> LogAudit(log, obs.userId, obs.type, obs.identifier, obs.result),
              events |-> IF obs.result.granted
                         THEN <<"ACCESS_GRANTED">> ELSE <<"ACCESS_DENIED">>]
        ELSE [thrown |-> cfg.strictMode, result |-> failure, contextCache |-> cc,
              auditLog |-> LogAudit(log, obs.userId, obs.type, obs.identifier, failure),
              events |-> << >>]

-----------------------------------------------------------------------------
(* A stand-alone LruCache driven by its public methods *)

CacheKeys == { << >>, <<"a">>, <<"b">> }

CacheValues == { <<"x">>, <<"y">> }

TtlArgs == { NoNum, Num(0), Num(1) }

MaxSizes == { 0, 1, 2 }

DefaultTtls == { 2 }

CachePatterns == { {<<"a">>}, {<<"a", "+">>, <<"b">>} }

\* the recency order after key was written or successfully read
Touch(r, key) ==
    LET Other(k) == k # key IN Append(SelectSeq(r, Other), key)

\* the recency order without the keys that left the cache
Surviving(r, c) ==
    LET In(k) == MapHas(c, k) IN SelectSeq(r, In)

CacheInit ==
    /\ now = 0
    /\ cache = << >>
    /\ maxSize \in MaxSizes
    /\ defaultTtl \in DefaultTtls
    /\ recency = << >>
    /\ cacheRet = NoRet
    /\ universe = << >>
    /\ hierarchyCache = << >>
    /\ hierCall = NoHierCall
    /\ hierRet = HierOk(<< >>)
    /\ walk = NoWalk
    /\ IdleService

Tick ==
    /\ now < MaxTime
    /\ now' = now + 1

CacheTick ==
    /\ Tick
    /\ cacheRet' = NoRet
    /\ UNCHANGED <<cache, maxSize, defaultTtl, recency, hierVars, svcVars>>

CacheSet(key, value, ttl) ==
    /\ cache' = LruSet(cache, maxSize, defaultTtl, key, value, ttl, now)
    /\ recency' = Surviving(Touch(recency, key), cache')
    /\ cacheRet' = NoRet
    /\ UNCHANGED <<now, maxSize, defaultTtl, hierVars, svcVars>>

CacheGet(key) ==
    LET r == LruGet(cache, key, now)
    IN  /\ cache' = r.cache
        /\ recency' = Surviving(IF r.found THEN Touch(recency, key) ELSE recency, cache')
        /\ cacheRet' = Ret(r.value, r.found, 0)
        /\ UNCHANGED <<now, maxSize, defaultTtl, hierVars, svcVars>>

CacheHas(key) ==
    LET r == LruGet(cache, key, now)
    IN  /\ cache' = r.cache
        /\ recency' = Surviving(IF r.found THEN Touch(recency, key) ELSE recency, cache')
        /\ cacheRet' = Ret(Undef, r.found, 0)
        /\ UNCHANGED <<now, maxSize, defaultTtl, hierVars, svcVars>>

CacheDelete(key) ==
    /\ cache' = MapDelete(cache, key)
    /\ recency' = Surviving(recency, cache')
    /\ cacheRet' = Ret(Undef, MapHas(cache, key), 0)
    /\ UNCHANGED <<now, maxSize, defaultTtl, hierVars, svcVars>>

CacheClear ==
    /\ cache' = << >>
    /\ recency' = << >>
    /\ cacheRet' = NoRet
    /\ UNCHANGED <<now, maxSize, defaultTtl, hierVars, svcVars>>

CacheCleanup ==
    LET r == LruCleanup(cache, now)
    IN  /\ cache' = r.cache
        /\ recency' = Surviving(recency, cache')
        /\ cacheRet' = Ret(Undef, FALSE, r.removed)
        /\ UNCHANGED <<now, maxSize, defaultTtl, hierVars, svcVars>>

CacheInvalidatePattern(alts) ==
    LET r == LruInvalidatePattern(cache, alts)
    IN  /\ cache' = r.cache
        /\ recency' = Surviving(recency, cache')
        /\ cacheRet' = Ret(Undef, FALSE, r.removed)
        /\ UNCHANGED <<now, maxSize, defaultTtl, hierVars, svcVars>>

CacheRefresh(key, ttl) ==
    LET r == LruRefresh(cache, defaultTtl, key, ttl, now)
    IN  /\ cache' = r.cache
        /\ recency' = Surviving(IF r.ok THEN Touch(recency, key) ELSE recency, cache')
        /\ cacheRet' = Ret(Undef, r.ok, 0)
        /\ UNCHANGED <<now, maxSize, defaultTtl, hierVars, svcVars>>

CacheNext ==
    \/ CacheTick
    \/ \E k \in CacheKeys, v \in CacheValues, t \in TtlArgs : CacheSet(k, v, t)
    \/ \E k \in CacheKeys : CacheGet(k)
    \/ \E k \in CacheKeys : CacheHas(k)
    \/ \E k \in CacheKeys : CacheDelete(k)
    \/ CacheClear
    \/ CacheCleanup
    \/ \E p \in CachePatterns : CacheInvalidatePattern(p)
    \/ \E k \in CacheKeys, t \in TtlArgs : CacheRefresh(k, t)

SpecCache == CacheInit /\ [][CacheNext]_vars

-----------------------------------------------------------------------------
(* A RoleHierarchyManager driven by its public methods.  The caller holds    *)
(* the universe of roles it passes as allRoles and may replace it between    *)
(* calls; the user roles of a call are roles of that universe.               *)

HierRoleIds == { <<"A">>, <<"B">>, <<"C">> }

\* an id that names no role
Dangling == <<"Z">>

HierTenants == { Undef, <<"t">> }

\* the universes: roles A, B, C; A without parent, under B or with a parent
\* that names no role; B without parent, under A or under C; C without
\* parent, under A or under itself; B tagged or not with another tenant than
\* the one of the calls
HierGraphs ==
    { << Role(1, <<"A">>, TRUE, pa, Undef),
         Role(2, <<"B">>, TRUE, pb, tb),
         Role(3, <<"C">>, TRUE, pc, Undef) >> :
      pa \in { Undef, <<"B">>, Dangling },
      pb \in { Undef, <<"A">>, <<"C">> },
      pc \in { Undef, <<"A">>, <<"C">> },
      tb \in { Undef, <<"u">> } }

\* a role object of the caller's own with the id of r: not the object in
\* allRoles, and inactive
Twin(r) == [r EXCEPT !.ref = r.ref + 3, !.active = FALSE]

\* the user roles of a call: one role of the universe, two of them in either
\* order, or a role object of the caller's own beside a role of the universe
HierUserRoles(g) ==
    { <<g[i]>> : i \in 1..Len(g) }
        \cup { <<g[2], g[3]>>, <<g[3], g[2]>> }
        \cup { <<Twin(g[1]), g[3]>> }

HierInit ==
    /\ universe \in HierGraphs
    /\ hierarchyCache = << >>
    /\ hierCall = NoHierCall
    /\ hierRet = HierOk(<< >>)
    /\ walk = NoWalk
    /\ now = 0
    /\ cache = << >>
    /\ maxSize = 1
    /\ defaultTtl = 1
    /\ recency = << >>
    /\ cacheRet = NoRet
    /\ IdleService

\* the caller replaces its universe of roles
HierSetUniverse(g) ==
    /\ g # universe
    /\ universe' = g
    /\ hierCall' = NoHierCall
    /\ hierRet' = HierOk(<< >>)
    /\ UNCHANGED <<hierarchyCache, walk, cacheVars, svcVars>>

HierResolve(userRoles, tenantId) ==
    LET r == ResolveHierarchy(hierarchyCache, userRoles, universe, tenantId)
    IN  /\ Cardinality(DOMAIN r.memo) <= MaxMemo
        /\ hierarchyCache' = r.memo
        /\ hierCall' = HierCall("resolveHierarchy", userRoles, tenantId)
        /\ hierRet' = r.out
        /\ UNCHANGED <<universe, walk, cacheVars, svcVars>>

HierValidate ==
    /\ hierCall' = HierCall("validateHierarchy", << >>, Undef)
    /\ hierRet' = ValidateHierarchy(universe)
    /\ UNCHANGED <<universe, hierarchyCache, walk, cacheVars, svcVars>>

HierClearCache(tenantId) ==
    /\ hierarchyCache' = ClearHierarchyCache(hierarchyCache, tenantId)
    /\ hierCall' = HierCall("clearCache", << >>, tenantId)
    /\ hierRet' = HierOk(<< >>)
    /\ UNCHANGED <<universe, walk, cacheVars, svcVars>>

HierNext ==
    \/ \E g \in HierGraphs : HierSetUniverse(g)
    \/ \E rs \in HierUserRoles(universe), t \in HierTenants : HierResolve(rs, t)
    \/ HierValidate
    \/ \E t \in HierTenants : HierClearCache(t)

SpecHier == HierInit /\ [][HierNext]_vars

-----------------------------------------------------------------------------
(* getHierarchyPath, one pass of its while loop per step.  The manager runs  *)
(* on one thread: no other call begins while the loop runs, and the loop     *)
(* goes on as long as it can.                                                *)

\* the longest path the model follows; longer than any chain without cycle
MaxPath == 4

\* getHierarchyPath(role, universe) is called
PathCall(role) ==
    /\ ~walk.running
    /\ walk' = Walk(TRUE, role, << >>)
    /\ hierCall' = HierCall("getHierarchyPath", <<role>>, Undef)
    /\ hierRet' = HierOk(<< >>)
    /\ UNCHANGED <<universe, hierarchyCache, cacheVars, svcVars>>

\* one pass of the loop; after the last one the call returns path
PathStep ==
    /\ walk.running
    /\ Len(walk.path) < MaxPath
    /\ walk' = WalkStep(walk, universe)
    /\ hierRet' = IF walk'.running THEN hierRet ELSE HierOk(walk'.path)
    /\ UNCHANGED <<universe, hierarchyCache, hierCall, cacheVars, svcVars>>

PathInit == HierInit

PathNext ==
    \/ \E i \in 1..Len(universe) : PathCall(universe[i])
    \/ PathStep
    \/ ~walk.running /\ HierValidate
    \/ \E g \in HierGraphs : ~walk.running /\ HierSetUniverse(g)

SpecPath == PathInit /\ [][PathNext]_vars /\ WF_vars(PathStep)

-----------------------------------------------------------------------------
(* The memo of a RoleHierarchyManager that serves several tenants *)

\* tenant ids, one of them a prefix of another
MemoTenants == { Undef, <<"t">>, <<"t", "u">>, <<"u">> }

MemoGraphs ==
    { << Role(1, <<"A">>, TRUE, pa, Undef),
         Role(2, <<"B">>, TRUE, Undef, Undef),
         Role(3, <<"C">>, TRUE, pc, Undef) >> :
      pa \in { Undef, <<"B">> }, pc \in { Undef, <<"A">> } }

MemoInit ==
    /\ HierInit
    /\ universe \in MemoGraphs

MemoNext ==
    \/ \E i \in 1..Len(universe), t \in MemoTenants : HierResolve(<<universe[i]>>, t)
    \/ \E t \in MemoTenants : HierClearCache(t)

SpecMemo == MemoInit /\ [][MemoNext]_vars

-----------------------------------------------------------------------------
(* The RoleService driven by its public methods.  A check is a call of       *)
(* hasRole or hasPermission whose Observable the caller subscribes at once.  *)

\* the variables of the stand-alone cache and of the caller of the manager
IdleDrivers ==
    /\ cache = << >>
    /\ maxSize = 1
    /\ defaultTtl = 1
    /\ recency = << >>
    /\ cacheRet = NoRet
    /\ universe = << >>
    /\ hierCall = NoHierCall
    /\ hierRet = HierOk(<< >>)
    /\ walk = NoWalk

\* the constructor of the RoleService with the injected configuration
ServiceInit(configs) ==
    /\ observer = NoObserver
    /\ pending = << >>
    /\ auditRet = NoAuditRet
    /\ destroyed = FALSE
    /\ now = 0
    /\ userContext = NoContext
    /\ config \in configs
    /\ contextCache = << >>
    /\ hierarchyCache = << >>
    /\ auditLog = << >>
    /\ effectDirty = FALSE
    /\ lastCall = NoCall
    /\ IdleDrivers

\* RoleService.setUserContext
SetUserContext(context) ==
    /\ userContext' = context
    /\ contextCache' = ClearUserCache(contextCache, context.userId)
    /\ effectDirty' = TRUE
    /\ lastCall' = PlainCall("setUserContext", <<"CONTEXT_UPDATED">>)
    /\ UNCHANGED <<auditRet, destroyed,
                   observer, pending, config, auditLog, hierarchyCache, now, cache, maxSize, defaultTtl,
                   recency, cacheRet, universe, hierCall, hierRet, walk>>

\* the effect of setupEffects runs after the userContext signal changed
RunEffect ==
    /\ effectDirty
    /\ effectDirty' = FALSE
    /\ contextCache' = IF userContext.present
                       THEN ClearUserCache(contextCache, userContext.userId)
                       ELSE contextCache
    /\ lastCall' = PlainCall("effect", << >>)
    /\ UNCHANGED <<auditRet, destroyed,
                   observer, pending, userContext, config, auditLog, hierarchyCache, now, cache, maxSize,
                   defaultTtl, recency, cacheRet, universe, hierCall, hierRet, walk>>

\* a check whose call did c and whose subscription, if any, did s
Checked(op, type, identifier, options, c, s) ==
    /\ Len(IF c.thrown THEN c.auditLog ELSE s.auditLog) <= MaxAudit
    /\ Cardinality(DOMAIN c.hierarchyCache) <= MaxMemo
    /\ contextCache' = IF c.thrown THEN c.contextCache ELSE s.contextCache
    /\ hierarchyCache' = c.hierarchyCache
    /\ auditLog' = IF c.thrown THEN c.auditLog ELSE s.auditLog
    /\ lastCall' = Call(op, type, identifier, options, c.thrown \/ s.thrown,
                        IF c.thrown THEN c.message ELSE << >>,
                        IF c.thrown THEN NoResult ELSE s.result,
                        c.evaluated, c.fromCache, Len(auditLog') - Len(auditLog),
                        IF c.thrown THEN << >> ELSE s.events)
    /\ UNCHANGED <<auditRet, destroyed,
                   observer, pending, userContext, config, effectDirty, now, cache, maxSize, defaultTtl,
                   recency, cacheRet, universe, hierCall, hierRet, walk>>

\* performPermissionCheck was called and did c: its Observable is subscribed
Subscribed(op, type, identifier, options, c) ==
    Checked(op, type, identifier, options, c,
            Subscribe(c.observable, config, c.contextCache, c.auditLog, now))

\* performPermissionCheck called and its Observable subscribed
Check(op, type, identifier, options) ==
    Subscribed(op, type, identifier, options,
               PerformPermissionCheck(type, identifier, options, userContext, config,
                                      contextCache, hierarchyCache, auditLog, now))

\* RoleService.hasRole
HasRole(roleId, options) == Check("hasRole", "role", roleId, options)

\* RoleService.hasPermission
HasPermission(permissionId, options) ==
    Check("hasPermission", "permission", permissionId, options)

\* RoleService.clearAllCaches
ClearAllCaches ==
    /\ contextCache' = << >>
    /\ hierarchyCache' = ClearHierarchyCache(hierarchyCache, Undef)
    /\ lastCall' = PlainCall("clearAllCaches", <<"CACHE_CLEARED">>)
    /\ UNCHANGED <<auditRet, destroyed,
                   observer, pending, userContext, config, auditLog, effectDirty, now, cache, maxSize,
                   defaultTtl, recency, cacheRet, universe, hierCall, hierRet, walk>>

-----------------------------------------------------------------------------
(* Role checks on the RoleService *)

AdminId == <<"admin">>

ManagerId == <<"manager">>

\* role objects a context can hold
adminActive == Role(1, AdminId, TRUE, Undef, Undef)

adminInactive == Role(2, AdminId, FALSE, Undef, Undef)

adminOfA == Role(3, AdminId, TRUE, Undef, <<"A">>)

managerOfAdmin == Role(4, ManagerId, TRUE, AdminId, Undef)

RoleLists ==
    { << >>, <<adminActive>>, <<adminInactive>>, <<adminOfA>>, <<managerOfAdmin>>,
      <<managerOfAdmin, adminInactive>> }

ContextTenants == { Undef, <<"B">> }

RoleContexts ==
    { UserContext(<<"u">>, rs, << >>, t) : rs \in RoleLists, t \in ContextTenants }

RoleOptions ==
    { NoOptions,
      Options("true", Undef, Undef, Undef, "undefined"),
      Options("false", Undef, Undef, Undef, "undefined"),
      Options("undefined", <<"B">>, Undef, Undef, "undefined"),
      Options("true", <<"B">>, Undef, Undef, "undefined") }

RoleConfigs == { DEFAULT_RBAC_CONFIG, RbacConfig(FALSE, TRUE, FALSE) }

RoleInit == ServiceInit(RoleConfigs)

RoleNext ==
    \/ \E c \in RoleContexts : SetUserContext(c)
    \/ RunEffect
    \/ \E r \in { AdminId, ManagerId }, o \in RoleOptions : HasRole(r, o)
    \/ ClearAllCaches

SpecRole == RoleInit /\ [][RoleNext]_vars

-----------------------------------------------------------------------------
(* Permission checks on the RoleService *)

DocEdit == Permission(<<"p1">>, <<"doc">>, <<"edit">>, TRUE)

DocEditInactive == Permission(<<"p1">>, <<"doc">>, <<"edit">>, FALSE)

\* a permission whose resource and action are the empty string
Blank == Permission(<<"p2">>, << >>, << >>, TRUE)

PermissionLists ==
    { << >>, <<DocEdit>>, <<DocEditInactive>>, <<Blank>>, <<DocEditInactive, Blank>> }

PermissionContexts ==
    { UserContext(<<"u">>, << >>, ps, Undef) : ps \in PermissionLists }

PermissionIds == { <<"p1">>, <<"other">> }

PermissionOptions ==
    { NoOptions,
      Options("undefined", Undef, <<"doc">>, <<"edit">>, "undefined"),
      Options("undefined", Undef, <<"doc">>, Undef, "undefined"),
      Options("undefined", Undef, Undef, <<"edit">>, "undefined"),
      Options("undefined", Undef, << >>, << >>, "undefined"),
      Options("undefined", Undef, <<"doc">>, <<"edit">>, "circular") }

PermissionConfigs == { DEFAULT_RBAC_CONFIG, RbacConfig(TRUE, TRUE, TRUE) }

PermissionInit == ServiceInit(PermissionConfigs)

PermissionNext ==
    \/ \E c \in PermissionContexts : SetUserContext(c)
    \/ RunEffect
    \/ \E p \in PermissionIds, o \in PermissionOptions : HasPermission(p, o)
    \/ ClearAllCaches

SpecPermission == PermissionInit /\ [][PermissionNext]_vars

\* a second, active permission on the resource and action of DocEdit
DocEditAgain == Permission(<<"p3">>, <<"doc">>, <<"edit">>, TRUE)

\* contexts in which an active and an inactive permission match one check
GrantingContexts ==
    { UserContext(<<"u">>, << >>, ps, Undef) :
          ps \in { <<DocEdit>>, <<DocEditInactive, DocEditAgain>>,
                   <<DocEditInactive, DocEdit>> } }

GrantingOptions ==
    { NoOptions, Options("undefined", Undef, <<"doc">>, <<"edit">>, "undefined") }

GrantingNext ==
    \/ \E c \in GrantingContexts : SetUserContext(c)
    \/ RunEffect
    \/ \E p \in PermissionIds, o \in GrantingOptions : HasPermission(p, o)
    \/ ClearAllCaches

SpecGranting == PermissionInit /\ [][GrantingNext]_vars

-----------------------------------------------------------------------------
(* Contexts of several users on the RoleService *)

\* user ids: two plain ones, and one with a character that is a RegExp operator
UserIds == { <<"u">>, <<"v">>, <<"u", "+">> }

UserContexts ==
    { UserContext(u, rs, << >>, Undef) :
          u \in UserIds, rs \in { << >>, <<adminActive>> } }

UserInit == ServiceInit({ DEFAULT_RBAC_CONFIG })

UserNext ==
    \/ \E c \in UserContexts : SetUserContext(c)
    \/ RunEffect
    \/ \E o \in { NoOptions, Options("false", Undef, Undef, Undef, "undefined") } :
           HasRole(AdminId, o)
    \/ ClearAllCaches

SpecUser == UserInit /\ [][UserNext]_vars

-----------------------------------------------------------------------------
(* Compound checks on the RoleService: hasAnyRole, hasAllRoles and           *)
(* hasAnyPermission call performPermissionCheck for every member while the   *)
(* list is mapped, and combineLatest subscribes the Observables in order.    *)

\* results.every(result => result)
Every(results) == \A i \in 1..Len(results) : results[i]

\* results.some(result => result)
Some(results) == \E i \in 1..Len(results) : results[i]

\* a combination that looks at the first member only
CombinedFromFirst(op, results) == results[1]

\* the value the combined Observable emits
Combined(op, results) ==
    IF op = "hasAllRoles" THEN Every(results) ELSE Some(results)

\* the boolean an Observable<boolean> of a compound check emits
Emitted(granted) == PermissionCheckResult(granted, << >>, << >>, << >>)

\* no member has been called yet
NoneCalled(cc, memo, log) ==
    [thrown |-> FALSE, message |-> << >>, evaluated |-> FALSE, fromCache |-> FALSE,
     contextCache |-> cc, hierarchyCache |-> memo, auditLog |-> log,
     observables |-> << >>]

\* the calls so far, and the next member's call that did p
AlsoCalled(acc, p) ==
    [thrown |-> p.thrown, message |-> p.message,
     evaluated |-> acc.evaluated \/ p.evaluated,
     fromCache |-> acc.fromCache \/ p.fromCache,
     contextCache |-> p.contextCache, hierarchyCache |-> p.hierarchyCache,
     auditLog |-> p.auditLog, observables |-> Append(acc.observables, p.observable)]

\* ids.map(id => this.performPermissionCheck(type, id, options)): the members
\* are called in order, each in the state the earlier calls left, until one
\* throws
RECURSIVE PerformEach(_, _, _, _, _, _, _)
PerformEach(type, ids, options, context, cfg, t, acc) ==
    IF acc.thrown \/ Len(acc.observables) = Len(ids)
    THEN acc
    ELSE PerformEach(type, ids, options, context, cfg, t,
             AlsoCalled(acc,
                 PerformPermissionCheck(type, ids[Len(acc.observables) + 1], options,
                                        context, cfg, acc.contextCache,
                                        acc.hierarchyCache, acc.auditLog, t)))

\* no member has been subscribed yet
NoneSubscribed(cc, log) ==
    [thrown |-> FALSE, results |-> << >>, contextCache |-> cc, auditLog |-> log,
     events |-> << >>]

\* the subscriptions so far, and the next member's subscription that did s
AlsoSubscribed(acc, s) ==
    [thrown |-> s.thrown, results |-> Append(acc.results, s.result.granted),
     contextCache |-> s.contextCache, auditLog |-> s.auditLog,
     events |-> acc.events \o s.events]

\* combineLatest subscribes its sources in order; each emits at once
RECURSIVE SubscribeEach(_, _, _, _)
SubscribeEach(observables, cfg, t, acc) ==
    IF acc.thrown \/ Len(acc.results) = Len(observables)
    THEN acc
    ELSE SubscribeEach(observables, cfg, t,
             AlsoSubscribed(acc,
                 Subscribe(observables[Len(acc.results) + 1], cfg, acc.contextCache,
                           acc.auditLog, t)))

\* a compound check whose calls did c and whose subscriptions did s; for the
\* empty list it returns of(false), or of(true) for hasAllRoles
CompoundChecked(op, type, ids, options, c, s) ==
    /\ Len(IF c.thrown THEN c.auditLog ELSE s.auditLog) <= MaxAudit
    /\ Cardinality(DOMAIN c.hierarchyCache) <= MaxMemo
    /\ contextCache' = IF c.thrown THEN c.contextCache ELSE s.contextCache
    /\ hierarchyCache' = c.hierarchyCache
    /\ auditLog' = IF c.thrown THEN c.auditLog ELSE s.auditLog
    /\ lastCall' = Call(op, type, ids, options, c.thrown \/ s.thrown,
                        IF c.thrown THEN c.message ELSE << >>,
                        IF c.thrown THEN NoResult
                        ELSE IF ids = << >> THEN Emitted(op = "hasAllRoles")
                        ELSE Emitted(Combined(op, s.results)),
                        c.evaluated, c.fromCache, Len(auditLog') - Len(auditLog),
                        IF c.thrown THEN << >> ELSE s.events)
    /\ UNCHANGED <<auditRet, destroyed,
                   observer, pending, userContext, config, effectDirty, now, cache, maxSize, defaultTtl,
                   recency, cacheRet, universe, hierCall, hierRet, walk>>

\* the members were called and did c: combineLatest is subscribed
CompoundSubscribed(op, type, ids, options, c) ==
    CompoundChecked(op, type, ids, options, c,
        SubscribeEach(c.observables, config, now,
                      NoneSubscribed(c.contextCache, c.auditLog)))

\* a compound check called and its Observable subscribed
CompoundCheck(op, type, ids, options) ==
    CompoundSubscribed(op, type, ids, options,
        PerformEach(type, ids, options, userContext, config, now,
                    NoneCalled(contextCache, hierarchyCache, auditLog)))

\* RoleService.hasAnyRole
HasAnyRole(roleIds, options) == CompoundCheck("hasAnyRole", "role", roleIds, options)

\* RoleService.hasAllRoles
HasAllRoles(roleIds, options) == CompoundCheck("hasAllRoles", "role", roleIds, options)

\* RoleService.hasAnyPermission
HasAnyPermission(permissionIds, options) ==
    CompoundCheck("hasAnyPermission", "permission", permissionIds, options)

\* lists of role ids: empty, single, two members in both orders, a repeated one
RoleIdLists ==
    { << >>, <<AdminId>>, <<AdminId, ManagerId>>, <<ManagerId, AdminId>>,
      <<AdminId, AdminId>> }

PermissionIdLists == { << >>, <<<<"p1">>>>, <<<<"other">>, <<"p1">>>> }

CompoundContexts ==
    { UserContext(<<"u">>, << >>, << >>, Undef),
      UserContext(<<"u">>, <<adminActive>>, <<DocEdit>>, Undef),
      UserContext(<<"u">>, <<managerOfAdmin, adminInactive>>, << >>, Undef) }

CompoundRoleOptions == { NoOptions, Options("false", Undef, Undef, Undef, "undefined") }

CompoundPermissionOptions ==
    { NoOptions, Options("undefined", Undef, <<"doc">>, <<"edit">>, "circular") }

CompoundInit == ServiceInit({ DEFAULT_RBAC_CONFIG })

CompoundNext ==
    \/ \E c \in CompoundContexts : SetUserContext(c)
    \/ RunEffect
    \/ \E r \in { AdminId, ManagerId }, o \in CompoundRoleOptions : HasRole(r, o)
    \/ HasPermission(<<"p1">>, NoOptions)
    \/ \E rs \in RoleIdLists, o \in CompoundRoleOptions : HasAnyRole(rs, o)
    \/ \E rs \in RoleIdLists, o \in CompoundRoleOptions : HasAllRoles(rs, o)
    \/ \E ps \in PermissionIdLists, o \in CompoundPermissionOptions :
           HasAnyPermission(ps, o)
    \/ ClearAllCaches

SpecCompound == CompoundInit /\ [][CompoundNext]_vars

-----------------------------------------------------------------------------
(* generateCacheKey on its own: the key performPermissionCheck builds for a  *)
(* check of the user of a context.                                           *)

\* user ids, one of them with the separator of the key in it ('u:a')
KeyUserIds == { <<"u">>, <<"v">>, <<"u", ":", "a">> }

\* identifiers, one of them with the separator of the key in it ('a:b')
KeyIdentifiers == { <<"a">>, <<"b">>, <<"a", ":", "b">> }

KeyOptions ==
    { NoOptions,
      Options("true", Undef, Undef, Undef, "undefined"),
      Options("undefined", <<"A">>, Undef, Undef, "undefined"),
      Options("undefined", <<"B">>, Undef, Undef, "undefined"),
      Options("undefined", Undef, <<"doc">>, <<"edit">>, "undefined"),
      Options("undefined", Undef, <<"doc">>, Undef, "undefined"),
      Options("undefined", Undef, <<"doc">>, <<"edit">>, "circular") }

KeyInit == ServiceInit({ DEFAULT_RBAC_CONFIG })

\* the key k was built for a check of the user of context
KeyGenerated(type, identifier, context, options, k) ==
    /\ userContext' = context
    /\ lastCall' = Call("generateCacheKey", type, identifier, options, k.thrown, << >>,
                        NoResult, FALSE, FALSE, 0, << >>)
    /\ cacheRet' = Ret(k.key, ~k.thrown, 0)
    /\ UNCHANGED <<auditRet, destroyed,
                   observer, pending, config, contextCache, auditLog, effectDirty, hierarchyCache, now,
                   cache, maxSize, defaultTtl, recency, universe, hierCall, hierRet, walk>>

\* generateCacheKey(type, identifier, context.userId, options)
GenerateKey(type, identifier, context, options) ==
    KeyGenerated(type, identifier, context, options,
                 GenerateCacheKey(type, identifier, context.userId, options))

KeyContexts == { UserContext(userId, << >>, << >>, Undef) : userId \in KeyUserIds }

KeyNext ==
    \E type \in { "role", "permission" }, identifier \in KeyIdentifiers,
       context \in KeyContexts, options \in KeyOptions :
        GenerateKey(type, identifier, context, options)

SpecKey == KeyInit /\ [][KeyNext]_vars

-----------------------------------------------------------------------------
(* A subscriber that stays subscribed to the Observable of a hasRole call    *)
(* while the context changes.  The Observable is of(...) piped through map:  *)
(* it emits the one result on subscription and completes.                    *)

\* subscribe(next): the caller of the last hasRole call keeps the value its
\* callback received
Watch ==
    /\ ~observer.subscribed
    /\ lastCall.op = "hasRole"
    /\ ~lastCall.thrown
    /\ observer' = Observer(lastCall.identifier, lastCall.options, lastCall.result.granted)
    /\ UNCHANGED <<auditRet, destroyed,
                   pending, userContext, config, contextCache, auditLog, effectDirty,
                   lastCall, hierVars, cacheVars>>

ReactiveContexts ==
    { UserContext(<<"u">>, rs, << >>, Undef) :
          rs \in { << >>, <<adminActive>>, <<managerOfAdmin, adminInactive>> } }

ReactiveInit == ServiceInit({ DEFAULT_RBAC_CONFIG })

ReactiveNext ==
    \/ \E c \in ReactiveContexts : SetUserContext(c)
    \/ RunEffect
    \/ \E r \in { AdminId, ManagerId } : HasRole(r, NoOptions)
    \/ Watch
    \/ ClearAllCaches

\* what the service does by itself happens: the scheduled effect runs, and a
\* subscribed Observable delivers its value
SpecReactive ==
    ReactiveInit /\ [][ReactiveNext]_vars /\ WF_vars(RunEffect) /\ WF_vars(Watch)

-----------------------------------------------------------------------------
(* The audit log of the RoleService and the timer that trims it *)

\* the callback of timer(600000, 600000) in setupPeriodicCleanup:
\* auditLog.splice(0, length - maxAuditLogSize) when the log is over its size
TrimAuditLog ==
    /\ ~destroyed
    /\ auditLog' = IF Len(auditLog) > maxAuditLogSize
                   THEN SubSeq(auditLog, Len(auditLog) - maxAuditLogSize + 1, Len(auditLog))
                   ELSE auditLog
    /\ lastCall' = PlainCall("trimAuditLog", << >>)
    /\ UNCHANGED <<auditRet, destroyed,
                   observer, pending, userContext, config, contextCache, effectDirty,
                   hierVars, cacheVars>>

\* Array.prototype.slice(start) of a sequence: a negative start counts from
\* the end, and -0 is 0
Slice(seq, start) ==
    LET len  == Len(seq)
        from == IF start < 0
                THEN (IF len + start > 0 THEN len + start ELSE 0)
                ELSE (IF start < len THEN start ELSE len)
    IN  SubSeq(seq, from + 1, len)

\* RoleService.getAuditLog: this.auditLog.slice(-limit); the value returned
\* and the limit are recorded
GetAuditLog(limit) ==
    /\ auditRet' = AuditRet(limit, Slice(auditLog, 0 - limit))
    /\ lastCall' = PlainCall("getAuditLog", << >>)
    /\ UNCHANGED <<destroyed, observer, pending, userContext, config, contextCache,
                   auditLog, effectDirty, hierVars, cacheVars>>

AuditLimits == 0..(MaxAudit + 1)

AuditContexts ==
    { UserContext(<<"u">>, rs, << >>, Undef) : rs \in { << >>, <<adminActive>> } }

AuditInit == ServiceInit({ DEFAULT_RBAC_CONFIG })

AuditNext ==
    \/ \E c \in AuditContexts : SetUserContext(c)
    \/ RunEffect
    \/ \E r \in { AdminId, ManagerId } : HasRole(r, NoOptions)
    \/ TrimAuditLog
    \/ \E limit \in AuditLimits : GetAuditLog(limit)

SpecAudit == AuditInit /\ [][AuditNext]_vars

-----------------------------------------------------------------------------
(* The route guards of rbac.guards.ts.  A guard calls the checks of the      *)
(* RoleService when the route is activated; the router subscribes the        *)
(* Observable the guard returns.                                             *)

\* GuardOptions: includeInherited and tenantId are left undefined
GuardOptions(roles, permissions, requireAll, redirectUrl, throwOnDenied) ==
    [roles |-> roles, permissions |-> permissions, requireAll |-> requireAll,
     redirectUrl |-> redirectUrl, throwOnDenied |-> throwOnDenied]

\* the options object { includeInherited: undefined, tenantId: undefined } the
\* guards pass to the role checks
GuardRoleOptions == Options("undefined", Undef, Undef, Undef, "undefined")

\* what the Observable of a guard delivers for the hasAccess value it was
\* given: true, false, a UrlTree with or without returnUrl, or an RbacError
GuardResult(access, kind, url, returnUrl) ==
    [access |-> access, kind |-> kind, url |-> url, returnUrl |-> returnUrl]

\* map(hasAccess => ...) of the guards
GuardMapped(options, hasAccess) ==
    IF hasAccess THEN GuardResult(TRUE, "true", Undef, FALSE)
    ELSE IF options.throwOnDenied THEN GuardResult(FALSE, "RbacError", Undef, FALSE)
    ELSE IF Truthy(options.redirectUrl)
    THEN GuardResult(FALSE, "UrlTree", options.redirectUrl, TRUE)
    ELSE GuardResult(FALSE, "false", Undef, FALSE)

\* catchError(error => ...) of the guards, after the map
GuardCaught(options, r) ==
    IF r.kind # "RbacError" THEN r
    ELSE IF Truthy(options.redirectUrl)
    THEN GuardResult(r.access, "UrlTree", options.redirectUrl, FALSE)
    ELSE GuardResult(r.access, "false", Undef, FALSE)

\* a guard whose service calls did c, whose subscriptions did s, and whose map
\* received hasAccess
GuardActivated(op, options, c, s, hasAccess) ==
    /\ Len(IF c.thrown THEN c.auditLog ELSE s.auditLog) <= MaxGuardAudit
    /\ Cardinality(DOMAIN c.hierarchyCache) <= MaxMemo
    /\ contextCache' = IF c.thrown THEN c.contextCache ELSE s.contextCache
    /\ hierarchyCache' = c.hierarchyCache
    /\ auditLog' = IF c.thrown THEN c.auditLog ELSE s.auditLog
    /\ lastCall' = Call(op, "guard", << >>, options, c.thrown,
                        IF c.thrown THEN c.message ELSE << >>,
                        IF c.thrown THEN NoResult
                        ELSE GuardCaught(options, GuardMapped(options, hasAccess)),
                        c.evaluated, c.fromCache, Len(auditLog') - Len(auditLog),
                        IF c.thrown THEN << >> ELSE s.events)
    /\ UNCHANGED <<auditRet, destroyed,
                   observer, pending, userContext, config, effectDirty, now, cache, maxSize,
                   defaultTtl, recency, cacheRet, universe, hierCall, hierRet, walk>>

\* return of(true): the guard has nothing to check
GuardOpen(op, options) ==
    GuardActivated(op, options, NoneCalled(contextCache, hierarchyCache, auditLog),
                   NoneSubscribed(contextCache, auditLog), TRUE)

\* the one compound check of a guard was called and did c, its subscription s
GuardDelivered(op, options, combine, c, s) ==
    GuardActivated(op, options, c, s, Combined(combine, s.results))

\* the one compound check of a guard was called and did c
GuardCalled(op, options, combine, c) ==
    GuardDelivered(op, options, combine, c,
        SubscribeEach(c.observables, config, now,
                      NoneSubscribed(c.contextCache, c.auditLog)))

\* createRoleGuard(options), activated
CreateRoleGuard(options) ==
    IF options.roles = << >>
    THEN GuardOpen("createRoleGuard", options)
    ELSE GuardCalled("createRoleGuard", options,
             IF options.requireAll THEN "hasAllRoles" ELSE "hasAnyRole",
             PerformEach("role", options.roles, GuardRoleOptions, userContext, config,
                         now, NoneCalled(contextCache, hierarchyCache, auditLog)))

\* createPermissionGuard(options), activated: hasPermission for one
\* permission, hasAnyPermission otherwise
CreatePermissionGuard(options) ==
    IF options.permissions = << >>
    THEN GuardOpen("createPermissionGuard", options)
    ELSE GuardCalled("createPermissionGuard", options, "hasAnyPermission",
             PerformEach("permission", options.permissions, NoOptions, userContext,
                         config, now, NoneCalled(contextCache, hierarchyCache, auditLog)))

\* the calls of roleCheck$ and of permissionCheck$ as one record
BothCalled(c, d) ==
    [thrown |-> c.thrown \/ d.thrown,
     message |-> IF c.thrown THEN c.message ELSE d.message,
     evaluated |-> c.evaluated \/ d.evaluated, fromCache |-> c.fromCache \/ d.fromCache,
     contextCache |-> d.contextCache, hierarchyCache |-> d.hierarchyCache,
     auditLog |-> d.auditLog, observables |-> c.observables \o d.observables]

\* switchMap subscribed permissionCheck$ and its subscriptions did t
BothDelivered(options, c, d, s, t) ==
    GuardActivated("createRolePermissionGuard", options, BothCalled(c, d), t,
                   options.permissions = << >> \/ Some(t.results))

\* roleCheck$ emitted hasRole: switchMap subscribes permissionCheck$ when
\* requireAll and hasRole, or when neither; otherwise it yields hasRole
RoleDelivered(options, c, d, s, hasRole) ==
    IF options.requireAll = hasRole
    THEN BothDelivered(options, c, d, s,
             SubscribeEach(d.observables, config, now,
                           NoneSubscribed(s.contextCache, s.auditLog)))
    ELSE GuardActivated("createRolePermissionGuard", options, BothCalled(c, d), s,
                        hasRole)

\* roleCheck$ is subscribed; its subscriptions did s
RoleSubscribed(options, c, d, s) ==
    RoleDelivered(options, c, d, s,
        options.roles = << >>
            \/ Combined(IF options.requireAll THEN "hasAllRoles" ELSE "hasAnyRole",
                        s.results))

\* roleCheck$ was built by calls that did c, permissionCheck$ by calls that did d
BothBuilt(options, c, d) ==
    IF c.thrown \/ d.thrown
    THEN GuardActivated("createRolePermissionGuard", options, BothCalled(c, d),
                        NoneSubscribed(d.contextCache, d.auditLog), FALSE)
    ELSE RoleSubscribed(options, c, d,
             SubscribeEach(c.observables, config, now,
                           NoneSubscribed(d.contextCache, d.auditLog)))

\* roleCheck$ was built by calls that did c: permissionCheck$ is built
RoleBuilt(options, c) ==
    BothBuilt(options, c,
        IF c.thrown
        THEN NoneCalled(c.contextCache, c.hierarchyCache, c.auditLog)
        ELSE PerformEach("permission", options.permissions, NoOptions, userContext,
                         config, now,
                         NoneCalled(c.contextCache, c.hierarchyCache, c.auditLog)))

\* createRolePermissionGuard(options), activated
CreateRolePermissionGuard(options) ==
    IF options.roles = << >> /\ options.permissions = << >>
    THEN GuardOpen("createRolePermissionGuard", options)
    ELSE RoleBuilt(options,
             PerformEach("role", options.roles, GuardRoleOptions, userContext, config,
                         now, NoneCalled(contextCache, hierarchyCache, auditLog)))

GuardContexts ==
    { UserContext(<<"u">>, << >>, << >>, Undef),
      UserContext(<<"u">>, <<adminActive>>, <<DocEdit>>, Undef) }

AllGuardOptions ==
    { GuardOptions(rs, ps, all, url, throw) :
          rs \in { << >>, <<AdminId>> },
          ps \in { << >>, <<<<"other">>, <<"p1">>>> },
          all \in BOOLEAN, url \in { Undef, <<"/login">> }, throw \in BOOLEAN }

GuardInit == ServiceInit({ DEFAULT_RBAC_CONFIG })

GuardNext ==
    \/ \E c \in GuardContexts : SetUserContext(c)
    \/ RunEffect
    \/ \E o \in AllGuardOptions : CreateRoleGuard(o)
    \/ \E o \in AllGuardOptions : CreatePermissionGuard(o)
    \/ \E o \in AllGuardOptions : CreateRolePermissionGuard(o)

SpecGuard == GuardInit /\ [][GuardNext]_vars

-----------------------------------------------------------------------------
(* The RoleService reconfigured at run time, under one context *)

\* a Partial<RbacConfig> with one property
PartialConfig(field, value) == [field |-> field, value |-> value]

\* RoleService.configure: { ...this.config, ...newConfig }; the caches are
\* left as they are
Configure(newConfig) ==
    /\ config' = [config EXCEPT ![newConfig.field] = newConfig.value]
    /\ lastCall' = PlainCall("configure", <<"CONTEXT_UPDATED">>)
    /\ UNCHANGED <<auditRet, destroyed,
                   observer, pending, userContext, contextCache, auditLog, effectDirty,
                   hierVars, cacheVars>>

\* time passes between two calls
ConfigTick ==
    /\ Tick
    /\ lastCall' = NoCall
    /\ UNCHANGED <<auditRet, destroyed,
                   observer, pending, userContext, config, contextCache, auditLog, effectDirty,
                   hierarchyCache, cache, maxSize, defaultTtl, recency, cacheRet,
                   universe, hierCall, hierRet, walk>>

ConfigContexts ==
    { UserContext(<<"u">>, rs, << >>, Undef) :
          rs \in { <<adminActive>>, <<managerOfAdmin>> } }

ConfigOptions == { NoOptions, Options("false", Undef, Undef, Undef, "undefined") }

PartialConfigs ==
    { PartialConfig(f, v) : f \in { "enableRoleHierarchy", "enableCaching" },
                            v \in BOOLEAN }

ConfigInit == ServiceInit({ DEFAULT_RBAC_CONFIG })

\* the context is set once and never replaced
ConfigNext ==
    \/ \E c \in ConfigContexts : ~userContext.present /\ SetUserContext(c)
    \/ RunEffect
    \/ \E r \in { AdminId, ManagerId }, o \in ConfigOptions : HasRole(r, o)
    \/ \E p \in PartialConfigs : Configure(p)
    \/ ConfigTick

SpecConfig == ConfigInit /\ [][ConfigNext]_vars

-----------------------------------------------------------------------------
(* The periodic maintenance of the RoleService: the two timers of            *)
(* setupPeriodicCleanup fire between the calls of the application.           *)

\* the callback of timer(300000, 300000): permissionCache.cleanup() +
\* contextCache.cleanup(); permissionCache is never written and stays empty.
\* takeUntil(destroy$) ends the timer when ngOnDestroy runs
PeriodicCleanup ==
    LET r == LruCleanup(contextCache, now)
    IN  /\ ~destroyed
        /\ contextCache' = r.cache
        /\ cacheRet' = Ret(Undef, FALSE, r.removed)
        /\ lastCall' = PlainCall("cleanup", << >>)
        /\ UNCHANGED <<auditRet, destroyed,
                       observer, pending, userContext, config, auditLog, effectDirty,
                       hierVars, now, cache, maxSize, defaultTtl, recency>>

MaintenanceContexts ==
    { UserContext(<<"u">>, <<adminActive>>, << >>, Undef),
      UserContext(<<"v">>, <<adminInactive>>, << >>, Undef) }

MaintenanceInit == ServiceInit({ DEFAULT_RBAC_CONFIG })

MaintenanceNext ==
    \/ \E c \in MaintenanceContexts : SetUserContext(c)
    \/ RunEffect
    \/ \E r \in { AdminId, ManagerId } : HasRole(r, NoOptions)
    \/ ConfigTick
    \/ PeriodicCleanup
    \/ TrimAuditLog

SpecMaintenance == MaintenanceInit /\ [][MaintenanceNext]_vars

\* RoleService.ngOnDestroy: destroy$.next(); destroy$.complete();
\* eventSubject.complete()
Destroy ==
    /\ destroyed' = TRUE
    /\ lastCall' = PlainCall("ngOnDestroy", << >>)
    /\ UNCHANGED <<auditRet, observer, pending, userContext, config, contextCache,
                   auditLog, effectDirty, hierVars, cacheVars>>

\* the service from its construction to beyond its disposal
LifecycleNext == MaintenanceNext \/ Destroy

SpecLifecycle == MaintenanceInit /\ [][LifecycleNext]_vars

-----------------------------------------------------------------------------
(* A RoleService constructed with enableCaching = false, which configure     *)
(* may switch on and off at run time                                         *)

UncachedContexts ==
    { UserContext(<<"u">>, rs, << >>, Undef) : rs \in { << >>, <<adminActive>> } }

UncachedInit == ServiceInit({ RbacConfig(TRUE, FALSE, FALSE) })

UncachedNext ==
    \/ \E c \in UncachedContexts : SetUserContext(c)
    \/ RunEffect
    \/ HasRole(AdminId, NoOptions)
    \/ HasPermission(<<"p1">>, NoOptions)
    \/ \E v \in BOOLEAN : Configure(PartialConfig("enableCaching", v))
    \/ ConfigTick
    \/ PeriodicCleanup

SpecUncached == UncachedInit /\ [][UncachedNext]_vars

-----------------------------------------------------------------------------
(* Checks whose Observable is subscribed later than it was returned *)

\* the most Observables that are returned and not yet subscribed
MaxPending == 1

\* hasRole(roleId, options) returns: performPermissionCheck ran up to its
\* return and did c; the caller holds the Observable
Requested(roleId, options, c) ==
    /\ Len(pending) < MaxPending
    /\ ~c.thrown
    /\ Len(c.auditLog) <= MaxAudit
    /\ Cardinality(DOMAIN c.hierarchyCache) <= MaxMemo
    /\ pending' = Append(pending, [observable |-> c.observable, options |-> options])
    /\ contextCache' = c.contextCache
    /\ hierarchyCache' = c.hierarchyCache
    /\ auditLog' = c.auditLog
    /\ lastCall' = Call("requested", "role", roleId, options, FALSE, << >>, NoResult,
                        c.evaluated, c.fromCache, Len(auditLog') - Len(auditLog), << >>)
    /\ UNCHANGED <<auditRet, destroyed,
                   observer, userContext, config, effectDirty, now, cache, maxSize,
                   defaultTtl, recency, cacheRet, universe, hierCall, hierRet, walk>>

Request(roleId, options) ==
    Requested(roleId, options,
              PerformPermissionCheck("role", roleId, options, userContext, config,
                                     contextCache, hierarchyCache, auditLog, now))

\* the caller subscribes the Observable p.observable and s is what its map
\* and catchError callbacks do
Delivered(p, s) ==
    /\ Len(s.auditLog) <= MaxAudit
    /\ pending' = Tail(pending)
    /\ contextCache' = s.contextCache
    /\ auditLog' = s.auditLog
    /\ lastCall' = Call("delivered", p.observable.type, p.observable.identifier,
                        p.options, s.thrown, << >>, s.result,
                        p.observable.kind = "pipe", p.observable.kind = "of",
                        Len(auditLog') - Len(auditLog), s.events)
    /\ UNCHANGED <<auditRet, destroyed,
                   observer, userContext, config, effectDirty, hierarchyCache, now, cache,
                   maxSize, defaultTtl, recency, cacheRet, universe, hierCall, hierRet, walk>>

Deliver ==
    /\ pending # << >>
    /\ Delivered(Head(pending),
                 Subscribe(Head(pending).observable, config, contextCache, auditLog, now))

DeferredContexts ==
    { UserContext(<<"u">>, rs, << >>, Undef) : rs \in { <<adminActive>>, <<adminInactive>> } }

DeferredOptions == { NoOptions, Options("false", Undef, Undef, Undef, "undefined") }

DeferredInit == ServiceInit({ DEFAULT_RBAC_CONFIG })

DeferredNext ==
    \/ \E c \in DeferredContexts : SetUserContext(c)
    \/ RunEffect
    \/ \E o \in DeferredOptions : Request(AdminId, o)
    \/ Deliver
    \/ \E o \in DeferredOptions : HasRole(AdminId, o)

SpecDeferred == DeferredInit /\ [][DeferredNext]_vars

-----------------------------------------------------------------------------
(* Claims about the RoleHierarchyManager.  The role graph of a universe g    *)
(* with unique ids: i is the position of a role in g.                        *)

\* the position of the parent of g[i], 0 when it has none in g
ParentIndex(g, i) ==
    IF i # 0 /\ \E j \in 1..Len(g) : g[j].id = g[i].parentRoleId
    THEN CHOOSE j \in 1..Len(g) : g[j].id = g[i].parentRoleId
    ELSE 0

RECURSIVE KthAncestor(_, _, _)
KthAncestor(g, i, k) ==
    IF k = 0 THEN i ELSE KthAncestor(g, ParentIndex(g, i), k - 1)

\* the positions of the proper ancestors of g[i]
AncestorIndexes(g, i) == { KthAncestor(g, i, k) : k \in 1..Len(g) } \ {0}

Acyclic(g) == \A i \in 1..Len(g) : i \notin AncestorIndexes(g, i)

\* g[i] is on a cycle or its parent chain leads into one
OnOrIntoCycle(g, i) ==
    \E j \in AncestorIndexes(g, i) \cup {i} : j \in AncestorIndexes(g, j)

\* g[i] and all its ancestors
ChainOf(g, i) == { g[j] : j \in AncestorIndexes(g, i) \cup {i} }

SeqToSet(seq) == { seq[i] : i \in 1..Len(seq) }

\* the last call was resolveHierarchy([universe[i]], universe), no tenant
ResolvedFrom(i) ==
    hierCall = HierCall("resolveHierarchy", <<universe[i]>>, Undef)

\* C7: for every acyclic role graph, resolveHierarchy([child], allRoles)
\* raises no error and returns exactly child and the ancestors on its
\* parentRoleId chain, up to the first role without parent or with a parent
\* that is not in allRoles; so no sibling and no descendant of child.
C7_ResolveReturnsAncestorChain ==
    \A i \in 1..Len(universe) :
        (Acyclic(universe) /\ ResolvedFrom(i)) =>
            /\ hierRet.ok
            /\ SeqToSet(hierRet.roles) = ChainOf(universe, i)

\* C8: for a role graph that contains a cycle, resolveHierarchy started from
\* a role on or leading into the cycle fails with HIERARCHY_ERROR, returns
\* no partial result and memoizes none, and validateHierarchy over the same
\* graph fails with HIERARCHY_ERROR too.
C8_CycleRaisesHierarchyError ==
    /\ \A i \in 1..Len(universe) :
           (OnOrIntoCycle(universe, i) /\ ResolvedFrom(i)) =>
               /\ hierRet = HierThrow("HIERARCHY_ERROR")
               /\ HierarchyCacheKey(<<universe[i]>>, Undef) \notin DOMAIN hierarchyCache
    /\ (~Acyclic(universe) /\ hierCall.op = "validateHierarchy") =>
           hierRet = HierThrow("HIERARCHY_ERROR")

\* resolveHierarchy on a manager whose memo is empty
Unmemoized(userRoles, allRoles, tenantId) ==
    ResolveHierarchy(<< >>, userRoles, allRoles, tenantId).out

\* C26: each resolveHierarchy call on one manager returns the same set of
\* roles as an un-memoized computation on its own arguments (userRoles,
\* allRoles, tenantId), whatever the order of userRoles and whatever calls
\* were made before with the same role ids but another allRoles or other
\* role attributes.
C26_ResolveEqualsUnmemoized ==
    hierCall.op = "resolveHierarchy" =>
        LET fresh == Unmemoized(hierCall.userRoles, universe, hierCall.tenantId)
        IN  /\ hierRet.ok = fresh.ok
            /\ hierRet.code = fresh.code
            /\ SeqToSet(hierRet.roles) = SeqToSet(fresh.roles)

\* C27: the result of resolveHierarchy holds at most one role per id, also
\* when several user roles share an ancestor and when a user role is another
\* record than the role with the same id in allRoles.
C27_ResultHasOneRolePerId ==
    (hierCall.op = "resolveHierarchy" /\ hierRet.ok) =>
        \A i, j \in 1..Len(hierRet.roles) :
            hierRet.roles[i].id = hierRet.roles[j].id => i = j

\* role r passes the tenant filter of resolveHierarchy(..., tenantId)
KeptFor(r, tenantId) == ~Truthy(r.tenantId) \/ r.tenantId = tenantId

\* the walk from g[i] along parentRoleId reaches its k-th ancestor within
\* roles that pass the tenant filter
ReachesWithin(g, i, k, tenantId) ==
    \A m \in 0..k :
        /\ KthAncestor(g, i, m) # 0
        /\ KeptFor(g[KthAncestor(g, i, m)], tenantId)

\* g[i] and its ancestors up to the first role of another tenant
TenantChainOf(g, i, tenantId) ==
    { g[KthAncestor(g, i, k)] :
          k \in { n \in 0..Len(g) : ReachesWithin(g, i, n, tenantId) } }

\* the positions in g of the user roles of a call
IndexesOf(g, userRoles) == { i \in 1..Len(g) : g[i] \in SeqToSet(userRoles) }

\* the ids of a set of roles
IdsOf(roles) == { r.id : r \in roles }

\* C28: resolveHierarchy with a tenantId excludes a role whose non-empty
\* tenantId differs from it together with the ancestors reachable only
\* through it, keeps the roles without tenantId, and includes a role that is
\* reachable through another path of tenant-matching roles.
C28_TenantFilterCutsBranch ==
    (/\ hierCall.op = "resolveHierarchy"
     /\ Truthy(hierCall.tenantId)
     /\ SeqToSet(hierCall.userRoles) \subseteq SeqToSet(universe)
     /\ hierRet.ok) =>
        IdsOf(SeqToSet(hierRet.roles)) =
            IdsOf(UNION { TenantChainOf(universe, i, hierCall.tenantId) :
                              i \in IndexesOf(universe, hierCall.userRoles) })

\* how the parent chain of g[i] ends: "" at a role without parentRoleId,
\* "INVALID_ROLE" at a parentRoleId that names no role, "HIERARCHY_ERROR"
\* when it ends nowhere and so revisits a role
ChainEnd(g, i) ==
    LET OnChain == { KthAncestor(g, i, k) : k \in 0..Len(g) } \ {0}
    IN  IF \E j \in OnChain : ~Truthy(g[j].parentRoleId) THEN ""
        ELSE IF \E j \in OnChain : ParentIndex(g, j) = 0 THEN "INVALID_ROLE"
        ELSE "HIERARCHY_ERROR"

\* the roles of g whose parent chain does not end at a role without parent
Violating(g) == { i \in 1..Len(g) : ChainEnd(g, i) # "" }

\* the first of them in the order of g
FirstViolating(g) == CHOOSE i \in Violating(g) : \A j \in Violating(g) : i <= j

\* C29: validateHierarchy(allRoles) succeeds exactly when the parent chain of
\* every role ends at a role without parentRoleId; otherwise it fails on the
\* first violation found, with HIERARCHY_ERROR when the chain revisits a role
\* (a self-parent included) and with INVALID_ROLE when the chain reaches a
\* parentRoleId that names no role.
C29_ValidateReportsFirstViolation ==
    hierCall.op = "validateHierarchy" =>
        IF Violating(universe) = {}
        THEN hierRet = HierOk(<< >>)
        ELSE hierRet = HierThrow(ChainEnd(universe, FirstViolating(universe)))

\* validateHierarchy failed for a dangling parent in a universe that also
\* holds a cycle further down the list
C29_Witness ==
    /\ hierCall.op = "validateHierarchy"
    /\ hierRet = HierThrow("INVALID_ROLE")
    /\ \E i \in 1..Len(universe) : ChainEnd(universe, i) = "HIERARCHY_ERROR"

\* the last call was resolveHierarchy with user roles taken from allRoles
ResolvedOwnRoles ==
    /\ hierCall.op = "resolveHierarchy"
    /\ SeqToSet(hierCall.userRoles) \subseteq SeqToSet(universe)

\* C30: validateHierarchy is a sound pre-flight check for resolveHierarchy:
\* when validateHierarchy(allRoles) succeeds, resolveHierarchy raises no error
\* for any user roles taken from allRoles and any tenantId, and when
\* resolveHierarchy raises its cycle error for such user roles,
\* validateHierarchy(allRoles) fails.
C30_ValidateIsSoundPreflight ==
    ResolvedOwnRoles =>
        /\ ValidateHierarchy(universe).ok => hierRet.ok
        /\ hierRet = HierThrow("HIERARCHY_ERROR") => ~ValidateHierarchy(universe).ok

\* resolveHierarchy raised the cycle error in a universe validateHierarchy
\* rejects
C30_Witness ==
    /\ ResolvedOwnRoles
    /\ hierRet = HierThrow("HIERARCHY_ERROR")
    /\ ~ValidateHierarchy(universe).ok

\* getHierarchyPath(universe[i], universe) was called and has not returned
PathRunningFrom(i) ==
    /\ hierCall = HierCall("getHierarchyPath", <<universe[i]>>, Undef)
    /\ walk.running

\* it has returned
PathReturnedFrom(i) ==
    /\ hierCall = HierCall("getHierarchyPath", <<universe[i]>>, Undef)
    /\ ~walk.running

\* g[i], its parent, its grandparent, ... for a chain that enters no cycle
PathOf(g, i) ==
    [k \in 1..(Cardinality(AncestorIndexes(g, i)) + 1) |-> g[KthAncestor(g, i, k - 1)]]

TenantOfKey(key) ==
    CHOOSE t \in MemoTenants :
        \E i \in 1..Len(universe) : key = HierarchyCacheKey(<<universe[i]>>, t)

\* C32: clearCache(t) with a tenant id removes exactly the memo entries that
\* were computed for tenant t and leaves the entries of every other tenant
\* and the no-tenant entries unchanged; clearCache() removes all entries.
C32_ClearCacheRemovesTenantOnly ==
    [][hierCall'.op = "clearCache" =>
          LET t    == hierCall'.tenantId
              kept == { k \in DOMAIN hierarchyCache : TenantOfKey(k) # t }
          IN  hierarchyCache' = IF Truthy(t) THEN [k \in kept |-> hierarchyCache[k]]
                                ELSE << >>]_vars

-----------------------------------------------------------------------------
(* Claims about the stand-alone LruCache *)

\* a set of a new key into a cache that holds maxSize entries
OverflowingSet(key) ==
    /\ maxSize >= 1
    /\ Len(cache) = maxSize
    /\ ~MapHas(cache, key)
    /\ \E v \in CacheValues, t \in TtlArgs : CacheSet(key, v, t)

\* C10: with maxSize >= 1, a set that makes the entry count exceed maxSize
\* evicts exactly one entry, the key least recently written by set or
\* successfully read by get (expired or not): maxSize entries remain, the
\* other keys keep their order and the new key is the most recent one.
C10_OverflowEvictsLeastRecent ==
    [][\A key \in CacheKeys :
          OverflowingSet(key) =>
              /\ Len(cache') = maxSize
              /\ LruKeys(cache') = Append(Tail(recency), key)]_vars

\* C11: in every state reachable by set, get, has, delete, clear, cleanup,
\* invalidatePattern and refresh, the number of stored entries never exceeds
\* maxSize.
C11_SizeNeverExceedsMaxSize == Len(cache) <= maxSize

\* the entry read by a get that returned a value: get moved it to the end
ReadEntry == cache[Len(cache)]

\* C12: an entry stored at time t with ttl T is returned by get at every time
\* up to and including t + T and is a miss at every later time; a get that
\* finds the entry expired deletes it and changes neither the other entries
\* nor their recency order.
C12_TtlBoundary ==
    [][\A key \in CacheKeys :
          (CacheGet(key) /\ MapHas(cache, key)) =>
              IF now <= MapGet(cache, key).timestamp + MapGet(cache, key).ttl
              THEN /\ cacheRet' = Ret(MapGet(cache, key).value, TRUE, 0)
                   /\ MapHas(cache', key)
              ELSE /\ cacheRet' = Ret(Undef, FALSE, 0)
                   /\ ~MapHas(cache', key)
                   /\ cache' = MapDelete(cache, key)
                   /\ recency' = Surviving(recency, cache')]_vars

\* a get returned an entry at the last time of its life, t + T with T > 0
C12_Witness ==
    /\ cacheRet.flag
    /\ cacheRet.value # Undef
    /\ cache # << >>
    /\ ReadEntry.value = cacheRet.value
    /\ ReadEntry.ttl > 0
    /\ now = ReadEntry.timestamp + ReadEntry.ttl

\* C20: a cache with maxSize <= 0 is rejected at construction, so no cache
\* exists in which a set evicts the entry it has just inserted.
C20_NoAlwaysEvictingCache ==
    [][/\ maxSize >= 1
       /\ \A key \in CacheKeys, value \in CacheValues, ttl \in TtlArgs :
              CacheSet(key, value, ttl) => MapHas(cache', key)]_vars

\* C21: an entry stored with set(key, value, 0) holds a ttl of zero, so that
\* every get at a strictly later time is a miss; the default ttl is used only
\* when no ttl argument is given.
C21_ZeroTtlExpiresAtOnce ==
    [][\A key \in CacheKeys, value \in CacheValues :
          (CacheSet(key, value, Num(0)) /\ MapHas(cache', key)) =>
              MapGet(cache', key).ttl = 0]_vars

\* C33: expiry of an entry is final: get and has change only the recency
\* of an entry, not its expiry, and refresh succeeds only on an entry that is
\* still unexpired, so that no entry is returned later than t + T unless set
\* wrote it again.
C33_ExpiryIsFinal ==
    [][\A key \in CacheKeys :
          /\ ((CacheGet(key) \/ CacheHas(key)) /\ MapHas(cache', key)) =>
                 /\ MapGet(cache', key).timestamp = MapGet(cache, key).timestamp
                 /\ MapGet(cache', key).ttl = MapGet(cache, key).ttl
          /\ \A ttl \in TtlArgs :
                 (/\ CacheRefresh(key, ttl)
                  /\ MapHas(cache, key)
                  /\ Expired(MapGet(cache, key), now)) =>
                     /\ ~cacheRet'.flag
                     /\ MapHas(cache', key) => Expired(MapGet(cache', key), now)]_vars

-----------------------------------------------------------------------------
(* Claims about the RoleService *)

\* the positions of the entries of c that are not expired at time t
LiveAt(c, t) == { i \in 1..Len(c) : t - c[i].timestamp <= c[i].ttl }

\* the Observable hasRole(roleId) would return on the decision cache cc
CheckOn(cc, roleId) ==
    PerformPermissionCheck("role", roleId, NoOptions, userContext, config, cc,
                           hierarchyCache, auditLog, now).observable

\* C34: cleanup() removes exactly the entries that are expired at the time of
\* the call, returns their number and leaves every unexpired entry, its value
\* and the order of the survivors unchanged; invoked in any state of the
\* service it does not change the result of a later check.
C34_CleanupRemovesExpiredOnly ==
    [][lastCall'.op = "cleanup" =>
          LET live == LiveAt(contextCache, now)
          IN  /\ Len(contextCache') = Cardinality(live)
              /\ \A i \in live :
                     contextCache'[Cardinality({ j \in live : j <= i })] = contextCache[i]
              /\ cacheRet'.count = Len(contextCache) - Cardinality(live)
              /\ \A r \in { AdminId, ManagerId } :
                     CheckOn(contextCache', r) = CheckOn(contextCache, r)]_vars

\* the timer fired between a setUserContext and its effect, removed an
\* expired entry and kept an unexpired one
C34_Witness ==
    /\ lastCall.op = "cleanup"
    /\ effectDirty
    /\ cacheRet.count > 0
    /\ contextCache # << >>


IsPrefix(p, s) == Len(p) <= Len(s) /\ SubSeq(s, 1, Len(p)) = p

\* key is the key of a role check or of a permission check of userId
KeyedTo(key, userId) ==
    \/ IsPrefix(ROLE_CHECK \o userId \o <<":">>, key)
    \/ IsPrefix(PERMISSION_CHECK \o userId \o <<":">>, key)

\* C1: after setUserContext(ctx) returns, the decision cache holds no entry
\* keyed to ctx.userId (so that, with every check delivered before the next
\* operation starts, no result cached under an earlier context of that user
\* is returned afterwards).
C1_SetUserContextPurgesUser ==
    lastCall.op = "setUserContext" =>
        \A i \in 1..Len(contextCache) : ~KeyedTo(contextCache[i].key, userContext.userId)

\* C13: when setUserContext replaces a context of user P by a context of
\* user N, every decision-cache entry keyed to P and every entry keyed to N is
\* removed: no entry of P and no entry of N is in the cache after the call.
C13_SetUserContextPurgesBothUsers ==
    [][(lastCall'.op = "setUserContext" /\ userContext.present) =>
          \A i \in 1..Len(contextCache') :
              /\ ~KeyedTo(contextCache'[i].key, userContext.userId)
              /\ ~KeyedTo(contextCache'[i].key, userContext'.userId)]_vars

\* C35: invalidatePattern removes every entry whose key satisfies the matcher
\* and no other, leaving the others and their order unchanged; used by
\* clearUserCache(u), as setUserContext does for the user of the new context,
\* it removes all role-check and permission-check entries of user u and none
\* of any other user.
C35_ClearUserCacheRemovesUserOnly ==
    [][lastCall'.op = "setUserContext" =>
          LET OfOther(e) == ~KeyedTo(e.key, userContext'.userId)
          IN  contextCache' = SelectSeq(contextCache, OfOther)]_vars

\* C37: each setUserContext(ctx) call emits exactly one context-updated
\* event, and at the moment that event is delivered (emitEvent is the last
\* statement of the call, and the Subject notifies synchronously) the current
\* context is already ctx and the decision cache already holds no entry keyed
\* to ctx.userId.
C37_NotifiedAfterSwapAndPurge ==
    [][\A ctx \in UserContexts :
          SetUserContext(ctx) =>
              /\ lastCall'.events = <<"CONTEXT_UPDATED">>
              /\ userContext' = ctx
              /\ \A i \in 1..Len(contextCache') :
                     ~KeyedTo(contextCache'[i].key, ctx.userId)]_vars

\* C38: getAuditLog(limit) returns at most limit entries for every
\* limit >= 0, namely the most recent ones in append order, and does not
\* modify the audit log.
C38_GetAuditLogReturnsLastEntries ==
    [][lastCall'.op = "getAuditLog" =>
          LET limit == auditRet'.limit
              len   == Len(auditLog)
              n     == IF limit < len THEN limit ELSE len
          IN  /\ Len(auditRet'.entries) <= limit
              /\ auditRet'.entries = SubSeq(auditLog, len - n + 1, len)
              /\ auditLog' = auditLog]_vars

\* the last call was a check that delivered a result to its subscriber
DeliveredCheck == lastCall.op \in { "hasRole", "hasPermission" } /\ ~lastCall.thrown

\* C14: every check delivered for a user context appends exactly one audit
\* entry and emits exactly one access-granted or access-denied event, also
\* when its result is served from the cache: a cache hit skips the evaluation
\* but is still audited and still emits its event.
C14_EveryCheckAuditedAndNotified ==
    (DeliveredCheck /\ userContext.present) =>
        /\ lastCall.audited = 1
        /\ lastCall.events \in { <<"ACCESS_GRANTED">>, <<"ACCESS_DENIED">> }
        /\ (lastCall.events = <<"ACCESS_GRANTED">>) = lastCall.result.granted
        /\ lastCall.fromCache => ~lastCall.evaluated

\* C15: while no user context has been set, every role or permission check
\* yields granted = false with the no-user-context reason without raising,
\* leaves the decision cache empty, and appends one audit entry under the
\* user id 'anonymous'.
C15_NoContextDeniesAndAudits ==
    (lastCall.op \in { "hasRole", "hasPermission" } /\ ~userContext.present) =>
        /\ ~lastCall.thrown
        /\ lastCall.result = Denied(<<"No user context available">>)
        /\ ~lastCall.evaluated /\ ~lastCall.fromCache
        /\ contextCache = << >>
        /\ lastCall.audited = 1
        /\ auditLog[Len(auditLog)] =
               AuditLogEntry(<<"anonymous">>, CheckAction(lastCall.type),
                             lastCall.identifier, lastCall.result)

\* a permission check and, after it, a check with options that cannot be
\* serialized, both made before any context was set
C15_Witness ==
    /\ ~userContext.present
    /\ lastCall.op = "hasPermission"
    /\ lastCall.options.context = "circular"
    /\ Len(auditLog) = 2

\* a single check of one member, called in the current state
SingleCall(type, id, options) ==
    PerformPermissionCheck(type, id, options, userContext, config, contextCache,
                           hierarchyCache, auditLog, now)

\* what the subscriber of that single check is delivered
SingleDelivery(c) == Subscribe(c.observable, config, c.contextCache, c.auditLog, now)

\* hasRole(id) or hasPermission(id) in the current state
SingleGranted(type, id, options) ==
    SingleDelivery(SingleCall(type, id, options)).result.granted

\* the single check of the member appends an audit entry
SingleAudited(type, id, options) ==
    Len(SingleDelivery(SingleCall(type, id, options)).auditLog) = Len(auditLog) + 1

CompoundOps == { "hasAnyRole", "hasAllRoles", "hasAnyPermission" }

\* the compound check c, made in the current state, agrees with the single
\* checks of its members made in this state
AgreesWithMembers(c) ==
    LET Members == 1..Len(c.identifier)
        Granted(i) == SingleGranted(c.type, c.identifier[i], c.options)
    IN  /\ c.thrown = \E i \in Members :
                          SingleCall(c.type, c.identifier[i], c.options).thrown
        /\ ~c.thrown =>
              /\ c.result.granted = IF c.op = "hasAllRoles"
                                    THEN \A i \in Members : Granted(i)
                                    ELSE \E i \in Members : Granted(i)
              /\ c.audited =
                    Cardinality({ i \in Members :
                                    SingleAudited(c.type, c.identifier[i], c.options) })

\* C16: in a fixed state, hasAnyRole(ids) equals the OR of hasRole(id) over the
\* members, hasAllRoles(ids) the AND, and hasAnyPermission(ids) the OR of
\* hasPermission(id); for the empty list hasAnyRole and hasAnyPermission are
\* false and hasAllRoles is true; every member is audited exactly when its
\* single check in that state would be.
C16_CompoundIsFoldOfMembers ==
    [][lastCall'.op \in CompoundOps => AgreesWithMembers(lastCall')]_vars

\* hasAnyRole over a role the user lacks and a role the user holds
C16_Witness ==
    /\ lastCall.op = "hasAnyRole"
    /\ lastCall.identifier = <<ManagerId, AdminId>>
    /\ userContext.roles = <<adminActive>>
    /\ lastCall.result.granted
    /\ lastCall.audited = 2

\* two checks differ in check type, identifier, userId, or in their
\* resource / action / tenantId options
ChecksDiffer(c, userId, d, otherId) ==
    \/ c.type # d.type
    \/ c.identifier # d.identifier
    \/ userId # otherId
    \/ c.options.resource # d.options.resource
    \/ c.options.action # d.options.action
    \/ c.options.tenantId # d.options.tenantId

\* C17: two checks that differ in check type, identifier, current userId, or
\* in their resource / action / tenantId options never map to the same
\* decision-cache key (so that the cached decision of one is never returned
\* for the other).  Stated for every two keys built one after the other.
C17_DifferentChecksDifferentKeys ==
    [][(/\ lastCall.op = "generateCacheKey" /\ cacheRet.flag
        /\ lastCall'.op = "generateCacheKey" /\ cacheRet'.flag
        /\ ChecksDiffer(lastCall, userContext.userId, lastCall', userContext'.userId))
       => cacheRet'.value # cacheRet.value]_vars

\* the value the observer holds is not what its check yields in this state
ObserverStale ==
    /\ observer.subscribed
    /\ observer.value # SingleGranted("role", observer.roleId, observer.options)

\* C18: an observer subscribed to the Observable returned by hasRole(R) is
\* eventually notified of the new result after a later setUserContext changes
\* whether the user holds R: a value that has become stale does not stay.
C18_ObserverFollowsContext == ObserverStale ~> ~ObserverStale

\* C19: the audit log is append-only and bounded: in every reachable state it
\* holds at most maxAuditLogSize entries, and every step leaves it as it was
\* except that oldest entries may have been removed and new entries appended:
\* the entries that remain keep their order and are not modified.
C19_AuditLogBoundedAppendOnly ==
    [][/\ Len(auditLog') <= maxAuditLogSize
       /\ \E k \in 0..Len(auditLog) :
              IsPrefix(SubSeq(auditLog, k + 1, Len(auditLog)), auditLog')]_vars

GuardOps == { "createRoleGuard", "createPermissionGuard", "createRolePermissionGuard" }

\* every id of the list passes its single check in the current state
HoldsEvery(type, ids, options) ==
    \A i \in 1..Len(ids) : SingleGranted(type, ids[i], options)

\* C22: with requireAll = true, createPermissionGuard and
\* createRolePermissionGuard allow the activation only if the user holds every
\* permission of options.permissions (and, for the latter, every role of
\* options.roles).
C22_RequireAllNeedsEveryPermission ==
    [][(/\ lastCall'.op \in { "createPermissionGuard", "createRolePermissionGuard" }
        /\ ~lastCall'.thrown
        /\ lastCall'.options.requireAll
        /\ lastCall'.result.kind = "true")
       => /\ HoldsEvery("permission", lastCall'.options.permissions, NoOptions)
          /\ lastCall'.op = "createRolePermissionGuard" =>
                 HoldsEvery("role", lastCall'.options.roles, GuardRoleOptions)]_vars

\* C23: a denied check of a guard with throwOnDenied ends in an ACCESS_DENIED
\* RbacError that reaches the caller; without throwOnDenied it yields the
\* redirect UrlTree with returnUrl when redirectUrl is set, and false
\* otherwise.
C23_ThrowOnDeniedReachesCaller ==
    (lastCall.op \in GuardOps /\ ~lastCall.thrown /\ ~lastCall.result.access) =>
        IF lastCall.options.throwOnDenied
        THEN lastCall.result.kind = "RbacError"
        ELSE IF Truthy(lastCall.options.redirectUrl)
        THEN lastCall.result =
                 GuardResult(FALSE, "UrlTree", lastCall.options.redirectUrl, TRUE)
        ELSE lastCall.result.kind = "false"

\* the result executePermissionCheck computes for a check in the current state
FreshResult(type, identifier, options) ==
    ExecutePermissionCheck(type, identifier, userContext, options, config,
                           hierarchyCache).result

\* C24: for an unchanged context, a check served from the cache returns a
\* result equal in every field (granted, reason, grantingRoles,
\* grantingPermissions) to the result a fresh evaluation of the same check
\* would produce.
C24_CachedEqualsFresh ==
    [][(lastCall'.op \in { "hasRole", "hasPermission" } /\ lastCall'.fromCache) =>
          lastCall'.result =
              FreshResult(lastCall'.type, lastCall'.identifier, lastCall'.options)]_vars

C24_Witness ==
    /\ lastCall.op = "hasRole"
    /\ lastCall.fromCache
    /\ lastCall.result.granted
    /\ lastCall.result.grantingRoles = <<AdminId>>
    /\ config # DEFAULT_RBAC_CONFIG
    /\ now > 0

\* the last call was a check made with a user context that delivered a result
DeliveredForContext == DeliveredCheck /\ userContext.present

\* C36 as stated: with enableCaching = false the decision cache is neither
\* read nor written: it is empty in every reachable state, and every check is
\* evaluated against the current context, each delivered check producing its
\* own audit entry and event.
C36_CacheEmptyWhenDisabled ==
    ~config.enableCaching =>
        /\ contextCache = << >>
        /\ DeliveredForContext =>
               /\ lastCall.evaluated
               /\ lastCall.audited = 1
               /\ Len(lastCall.events) = 1

\* C36, amended: while enableCaching is false the decision cache is neither
\* read nor written: no step adds or changes an entry (so a cache that is
\* empty stays empty, while the entries stored before configure switched
\* caching off stay in it), a check leaves the cache as it is, and every check
\* delivered for a user context is evaluated against the current context and
\* produces its own audit entry and event.
C36_DisabledCacheUntouched ==
    [][~config.enableCaching =>
          /\ \A i \in 1..Len(contextCache') :
                 \E j \in 1..Len(contextCache) : contextCache[j] = contextCache'[i]
          /\ (lastCall'.op \in { "hasRole", "hasPermission" } /\ ~lastCall'.thrown
                  /\ userContext.present) =>
                 /\ contextCache' = contextCache
                 /\ lastCall'.evaluated
                 /\ ~lastCall'.fromCache
                 /\ lastCall'.result =
                        FreshResult(lastCall'.type, lastCall'.identifier, lastCall'.options)
                 /\ lastCall'.audited = 1
                 /\ Len(lastCall'.events) = 1]_vars

\* caching is off and a check was evaluated although the cache holds an
\* unexpired entry under its key, stored while caching was on
C36_Witness ==
    /\ ~config.enableCaching
    /\ DeliveredForContext
    /\ lastCall.evaluated
    /\ LET key == GenerateCacheKey(lastCall.type, lastCall.identifier,
                                   userContext.userId, lastCall.options).key
       IN  \E i \in 1..Len(contextCache) :
               /\ contextCache[i].key = key
               /\ ~Expired(contextCache[i], now)

\* C25: a check requested before a setUserContext call and delivered after it
\* does not store in the decision cache a result computed under the replaced
\* context, and after the swap no later check for that userId is served a
\* decision computed before the swap: what a delivery stores and what a later
\* check is served from the cache is the decision of the current context.
C25_NoStaleDecisionAfterSwap ==
    [][/\ (lastCall'.op = "delivered" /\ lastCall'.evaluated /\ config.enableCaching) =>
             lastCall'.result =
                 FreshResult(lastCall'.type, lastCall'.identifier, lastCall'.options)
       /\ (lastCall'.op = "hasRole" /\ lastCall'.fromCache) =>
             lastCall'.result =
                 FreshResult(lastCall'.type, lastCall'.identifier, lastCall'.options)]_vars

\* role r passes the tenant filter of a check for tenantId
FitsTenant(r, tenantId) ==
    ~Truthy(tenantId) \/ ~Truthy(r.tenantId) \/ r.tenantId = tenantId

\* the roles of the context that pass the tenant filter
RolesOfTenant(context, tenantId) ==
    { context.roles[i] : i \in { j \in 1..Len(context.roles) :
                                     FitsTenant(context.roles[j], tenantId) } }

RECURSIVE AncestorsIn(_, _, _)
\* the roles of g on the parent chain that starts at the role with id parentId
AncestorsIn(g, parentId, fuel) ==
    IF fuel = 0 \/ ~Truthy(parentId) \/ ~HasRoleId(g, parentId) THEN {}
    ELSE LET p == FindRole(g, parentId)
         IN  {p} \cup AncestorsIn(g, p.parentRoleId, fuel - 1)

\* the context grants roleId: directly, or by inheritance when it is enabled
GrantJustified(context, roleId, options, cfg) ==
    LET tenantId == EffectiveTenant(options, context)
        direct   == RolesOfTenant(context, tenantId)
    IN  \/ \E r \in direct : r.id = roleId /\ r.active
        \/ /\ IncludeInherited(options, cfg)
           /\ \E r \in direct :
                  \E a \in AncestorsIn(systemRoles, r.parentRoleId, Len(systemRoles)) :
                      a.id = roleId /\ a.active /\ FitsTenant(a, tenantId)

\* C2: in every reachable state, a hasRole(R) that is delivered as granted
\* is justified by the CURRENT context: its tenant-filtered roles contain an
\* active role with id R, or inheritance is enabled and an active role with
\* id R is an ancestor of one of them; an inactive or tenant-mismatched role
\* of the current context never produces a grant.
C2_GrantOnlyFromCurrentContext ==
    (lastCall.op = "hasRole" /\ ~lastCall.thrown /\ lastCall.result.granted) =>
        GrantJustified(userContext, lastCall.identifier, lastCall.options, config)

\* the last call was a hasRole that checkRoleAccess evaluated
EvaluatedRoleCheck ==
    lastCall.op = "hasRole" /\ lastCall.evaluated /\ ~lastCall.thrown

\* C3, as claimed: for every context that holds a directly assigned active
\* role with id R, an evaluation of hasRole(R) grants, whatever the
\* inheritance setting.
C3_DirectActiveRoleGrants ==
    (/\ EvaluatedRoleCheck
     /\ \E i \in 1..Len(userContext.roles) :
            /\ userContext.roles[i].id = lastCall.identifier
            /\ userContext.roles[i].active)
    => lastCall.result.granted

\* C3, amended: for every context that holds a directly assigned active role
\* with id R that passes the tenant filter of the check, an evaluation of
\* hasRole(R) grants with reason 'Direct role assignment', whatever the
\* inheritance setting.
C3_DirectActiveRoleOfTenantGrants ==
    (/\ EvaluatedRoleCheck
     /\ \E r \in RolesOfTenant(userContext, EffectiveTenant(lastCall.options, userContext)) :
            r.id = lastCall.identifier /\ r.active)
    => lastCall.result = PermissionCheckResult(TRUE, <<"Direct role assignment">>,
                                               <<lastCall.identifier>>, << >>)

\* a direct grant in a check with a tenant and with inheritance disabled
C3_Witness ==
    /\ EvaluatedRoleCheck
    /\ Truthy(EffectiveTenant(lastCall.options, userContext))
    /\ ~IncludeInherited(lastCall.options, config)
    /\ \E r \in RolesOfTenant(userContext, EffectiveTenant(lastCall.options, userContext)) :
           r.id = lastCall.identifier /\ r.active
    /\ lastCall.result.granted

\* every role of the context with the id of the last check is tagged with a
\* tenant other than the tenantId option of the check, and there is one
OnlyOtherTenant ==
    /\ Truthy(lastCall.options.tenantId)
    /\ HasRoleId(userContext.roles, lastCall.identifier)
    /\ \A i \in 1..Len(userContext.roles) :
           userContext.roles[i].id = lastCall.identifier =>
               /\ Truthy(userContext.roles[i].tenantId)
               /\ userContext.roles[i].tenantId # lastCall.options.tenantId

\* C4: a role tagged with tenant 'A' never satisfies an evaluation of hasRole
\* called with option tenantId 'B', A # B, even when its id matches and it is
\* active, with inheritance enabled or disabled.
C4_OtherTenantRoleNeverGrants ==
    (EvaluatedRoleCheck /\ OnlyOtherTenant) => ~lastCall.result.granted

\* an active role of tenant A, checked with option tenantId B and inheritance
C4_Witness ==
    /\ EvaluatedRoleCheck
    /\ OnlyOtherTenant
    /\ IncludeInherited(lastCall.options, config)
    /\ \E i \in 1..Len(userContext.roles) :
           /\ userContext.roles[i].id = lastCall.identifier
           /\ userContext.roles[i].active
    /\ ~lastCall.result.granted

\* the roles the application knows
KnownRoles == <<adminActive, managerOfAdmin>>

\* C5: when the context holds an active role 'manager' whose parentRoleId is
\* 'admin' (and no role 'admin') and the known roles contain an active
\* parentless role 'admin', an evaluation of hasRole('admin') denies with
\* inheritance disabled and grants with inheritance enabled, with reason
\* 'Inherited role assignment' and grantingRoles containing 'admin'.
C5_ManagerInheritsAdmin ==
    (/\ EvaluatedRoleCheck
     /\ lastCall.identifier = AdminId
     /\ ~HasRoleId(userContext.roles, AdminId)
     /\ \E r \in RolesOfTenant(userContext, EffectiveTenant(lastCall.options, userContext)) :
            r.id = ManagerId /\ r.active /\ r.parentRoleId = AdminId
     /\ \E i \in 1..Len(KnownRoles) :
            /\ KnownRoles[i].id = AdminId
            /\ KnownRoles[i].active
            /\ ~Truthy(KnownRoles[i].parentRoleId))
    => IF IncludeInherited(lastCall.options, config)
       THEN /\ lastCall.result.granted
            /\ lastCall.result.reason = <<"Inherited role assignment">>
            /\ AdminId \in SeqToSet(lastCall.result.grantingRoles)
       ELSE ~lastCall.result.granted

\* the last call was a hasPermission that checkPermissionAccess evaluated
EvaluatedPermissionCheck ==
    lastCall.op = "hasPermission" /\ lastCall.evaluated /\ ~lastCall.thrown

\* the context holds an active permission with the id of the last check
ActiveWithId ==
    \E i \in 1..Len(userContext.permissions) :
        /\ userContext.permissions[i].active
        /\ userContext.permissions[i].id = lastCall.identifier

\* the context holds an active permission with the resource and the action of
\* the options of the last check
ActiveWithPair ==
    \E i \in 1..Len(userContext.permissions) :
        /\ userContext.permissions[i].active
        /\ userContext.permissions[i].resource = lastCall.options.resource
        /\ userContext.permissions[i].action = lastCall.options.action

\* C6, as claimed: an evaluation of a permission check grants iff the context
\* holds an active permission whose id is the identifier, or, only when both
\* a resource and an action option are supplied, an active permission whose
\* (resource, action) pair equals them; so with one of them or none supplied
\* an id mismatch is denied.
C6_PermissionGrantedIff ==
    EvaluatedPermissionCheck =>
        (lastCall.result.granted <=>
            \/ ActiveWithId
            \/ /\ lastCall.options.resource # Undef
               /\ lastCall.options.action # Undef
               /\ ActiveWithPair)

\* C6, amended: an evaluation of a permission check grants iff the context
\* holds an active permission whose id is the identifier, or, only when both
\* a non-empty resource and a non-empty action option are supplied, an active
\* permission whose (resource, action) pair equals them.
C6_PermissionGrantedIffNonEmptyPair ==
    EvaluatedPermissionCheck =>
        (lastCall.result.granted <=>
            \/ ActiveWithId
            \/ /\ Truthy(lastCall.options.resource)
               /\ Truthy(lastCall.options.action)
               /\ ActiveWithPair)

\* a grant by the (resource, action) pair alone
C6_Witness ==
    /\ EvaluatedPermissionCheck
    /\ ~ActiveWithId
    /\ Truthy(lastCall.options.resource)
    /\ Truthy(lastCall.options.action)
    /\ ActiveWithPair
    /\ lastCall.result.granted

\* C39: for a granted permission check, grantingPermissions lists exactly the
\* ids of the active permissions of the context that match by id or by the
\* supplied (resource, action) pair; an inactive permission is never listed.
C39_GrantingPermissionsAreActive ==
    (EvaluatedPermissionCheck /\ lastCall.result.granted) =>
        LET pair == Truthy(lastCall.options.resource) /\ Truthy(lastCall.options.action)
            Contributes(p) ==
                /\ p.active
                /\ \/ p.id = lastCall.identifier
                   \/ /\ pair
                      /\ p.resource = lastCall.options.resource
                      /\ p.action = lastCall.options.action
        IN  lastCall.result.grantingPermissions =
                RoleIdsOf(SelectSeq(userContext.permissions, Contributes))

\* C40: after ngOnDestroy the periodic cache cleanup and the audit-log
\* trimming never run again and the notification stream is completed: no
\* subscriber of events$ receives any event afterwards, even if
\* setUserContext or checks are invoked later.
C40_NothingRunsAfterDestroy ==
    [][destroyed =>
          /\ destroyed'
          /\ lastCall'.op \notin { "cleanup", "trimAuditLog" }
          /\ lastCall'.events = << >>]_vars

\* after ngOnDestroy a context was set and nothing was notified, while the
\* decision cache holds an expired entry and the audit log is longer than
\* maxAuditLogSize
C40_Witness ==
    /\ destroyed
    /\ lastCall.op = "setUserContext"
    /\ lastCall.events = << >>
    /\ \E i \in 1..Len(contextCache) : Expired(contextCache[i], now)
    /\ Len(auditLog) > maxAuditLogSize

\* C9: a failure raised during the evaluation of a check is caught: in
\* non-strict mode the check delivers granted = false with a reason that
\* embeds the message of the failure and throws nothing to the caller; in
\* strict mode the error reaches the caller, after the audit entry of the
\* failed check was appended.
C9_FailuresAreCaught ==
    (lastCall.op \in { "hasRole", "hasPermission" } /\ lastCall.message # << >>) =>
        IF config.strictMode
        THEN /\ lastCall.thrown
             /\ lastCall.audited = 1
             /\ auditLog[Len(auditLog)].resource = lastCall.identifier
             /\ ~auditLog[Len(auditLog)].result.granted
        ELSE /\ ~lastCall.thrown
             /\ lastCall.result = Denied(<<"Check failed: ">> \o lastCall.message)

====
